---- MODULE Spec2Model ----
(***************************************************************************)
(* Bubble-sheet scanner: the detector of bubble_detector.py, the           *)
(* partitioning of image_processing.py / divide_questions.py and the       *)
(* orchestration of bubble_scanner.py (process_bubble_sheet).              *)
(*                                                                         *)
(* Numbers that are floats in the source are kept as exact rationals:      *)
(*   contour area      in half pixels     (area2 = 2 * cv2.contourArea)    *)
(*   circularity       in thousandths                                      *)
(*   aspect ratio      as the pair max(w,h) / min(w,h)                     *)
(*   fill ratio        as the pair <<dark_px, mask_px>>                    *)
(* and every comparison is done by cross multiplication.                   *)
(***************************************************************************)
EXTENDS Integers, Sequences, FiniteSets, TLC

VARIABLES
    \* ---- detector run on one row image (BubbleDetector.process) ----
    d_pc,            \* "loop" | "done" | "rerun" | "evaluated"
    detector,        \* None or Some(attributes of the BubbleDetector object)
    contours,        \* contours returned by cv2.findContours, discovery order
    bubbles,         \* accepted contours (find_bubbles local, then result)
    rejected,        \* rejected contours with their reason
    selected,        \* result of analyze_selections (0-based positions)
    alt_result,      \* None or Some(what the alternative evaluators report)
    \* ---- inputs of process_bubble_sheet ----
    image_readable,  \* cv2.imread(bubble_sheet_path) is not None
    sheet,           \* row -> index of the row's scene in RowScenes
    write_fail,      \* rows whose cv2.imwrite in divide_image_into_questions failed
    read_fail,       \* rows whose cv2.imread in process_bubble_sheet returns None
    detect_fail,     \* rows whose cv2.imread in BubbleDetector.process returns None
    dirs_missing,    \* sections whose questions directory does not exist
    model_answers,   \* None or Some(list)
    \* ---- process_bubble_sheet ----
    pc,              \* "start" | "section" | "rows" | "finish" | "done"
    cropped_image,   \* None or Some(canvas)
    sections,        \* None or Some(section name -> band)
    sec_i,           \* position in the iteration over sections.items()
    row_crops,       \* section name -> crops produced by divide_image_into_questions
    question_files,  \* sorted listing of the current questions directory
    file_i,          \* position in question_files
    all_answers,     \* list of question_result
    returned,        \* None or Some(results_dict)
    io_log,          \* the file reads and writes done so far, in order
    http,            \* None or Some(response of /evaluate or /grade)
    \* ---- process_images on one photograph ----
    n_pc,            \* "read" | "border" | "enhance" | "resize" | "done"
    n_input,         \* None (unreadable) or Some(shape and border found)
    n_image,         \* None or Some(shape of the image being worked on)
    n_result,        \* what process_images returns: None or Some(canvas)
    \* ---- the fill measurement of one accepted contour ----
    f_pc,            \* "masked" | "measured"
    f_pixels,        \* intensities of the enhanced image under the filled mask
    f_ratio,         \* None or Some(fill_ratio)
    \* ---- divide_image_into_questions on one section image ----
    q_pc,            \* "cut" | "done" | "raised"
    q_height,        \* img.shape[0]
    q_crops,         \* the row ranges cut so far
    \* ---- crop_into_thirds on one image ----
    t_pc,            \* "call" | "returned"
    t_image,         \* the shape of the image
    t_parts,         \* None or Some(the three bands)
    \* ---- combine_images called repeatedly on one output directory ----
    c_clock,         \* seconds elapsed on the wall clock since ClockStart
    c_results,       \* None or Some(listing of output/results) at the last call
    c_out,           \* the files of output_dir: records [name, image]
    c_written,       \* time stamps under which a combined image was saved
    c_last,          \* None or Some(image built by the last call that returned True)
    c_ret            \* None or Some(what the last call returned)

det_vars == <<d_pc, detector, contours, bubbles, rejected, selected, alt_result>>
in_vars == <<image_readable, sheet, write_fail, read_fail, detect_fail,
             dirs_missing, model_answers>>
run_vars == <<pc, cropped_image, sections, sec_i, row_crops, question_files,
              file_i, all_answers, returned, io_log, http>>
norm_vars == <<n_pc, n_input, n_image, n_result>>
fill_vars == <<f_pc, f_pixels, f_ratio>>
div_vars == <<q_pc, q_height, q_crops>>
thirds_vars == <<t_pc, t_image, t_parts>>
comb_vars == <<c_clock, c_results, c_out, c_written, c_last, c_ret>>
aux_vars == <<div_vars, thirds_vars, comb_vars>>
vars == <<det_vars, in_vars, run_vars, norm_vars, fill_vars, aux_vars>>

(***************************************************************************)
(* Bounds of the model                                                     *)
(***************************************************************************)
MaxContours == 5

(***************************************************************************)
(* Python values                                                           *)
(***************************************************************************)
None == <<>>
Some(v) == <<v>>
IsNone(o) == o = <<>>
Val(o) == o[1]

Max2(a, b) == IF a >= b THEN a ELSE b
Min2(a, b) == IF a <= b THEN a ELSE b

\* list.sort with a key: before[i][j] is "the key of s[i] sorts strictly before
\* the key of s[j]".  Python's sort is stable (also with reverse=True):
\* elements with equal keys keep their original order, so s[i] lands after
\* every s[j] that sorts before it and after every earlier s[j] with an equal
\* key.
StableSort(s, before) ==
    LET n == Len(s)
        rank(i) == 1 + Cardinality({j \in 1..n : j # i /\
                        (before[j][i] \/ (~before[i][j] /\ j < i))})
        ranks == [i \in 1..n |-> rank(i)] \o <<>>
    IN [p \in 1..n |-> s[CHOOSE i \in 1..n : ranks[i] = p]]

(***************************************************************************)
(* BubbleDetector.__init__                                                 *)
(***************************************************************************)
min_diameter == 25
max_diameter == 100
\* int(np.pi * (d/2)**2), with pi = 355/113
min_area == (355 * min_diameter * min_diameter) \div (113 * 4)
max_area == (355 * max_diameter * max_diameter) \div (113 * 4)
min_circularity == 200        \* 0.20, in thousandths
max_aspect_ratio == 25        \* 2.5, in tenths
dark_threshold == 120
fill_ratio_threshold == 46    \* 0.46, in hundredths
MaxBubbles == 4               \* bubbles[:4]

\* the attributes __init__ gives the detector object
BubbleDetector_init ==
    [min_diameter |-> min_diameter,
     max_diameter |-> max_diameter,
     min_area |-> min_area,
     max_area |-> max_area,
     min_circularity |-> min_circularity,
     max_aspect_ratio |-> max_aspect_ratio,
     dark_threshold |-> dark_threshold,
     fill_ratio_threshold |-> fill_ratio_threshold,
     selected_color |-> <<0, 255, 0>>,
     unselected_color |-> <<200, 200, 200>>,
     rejected_color |-> <<0, 255, 255>>,
     debug |-> TRUE]

(***************************************************************************)
(* Contours of a row image.  A contour carries what OpenCV measures on it: *)
(* twice its area, its circularity, its bounding box (left edge, width,    *)
(* height), the x coordinate of its centroid and the pixels of the image   *)
(* under its filled mask, as a list of <<intensity, number of pixels>>.    *)
(***************************************************************************)
Cnt(a2, c, x, w, h, cx, mask) ==
    [area2 |-> a2, circ |-> c, x |-> x, w |-> w, h |-> h, cx |-> cx, mask |-> mask]

\* accepted shapes, each on one boundary of the acceptance rule
K1 == Cnt(2 * min_area + 1, 880, 80, 40, 40, 100, <<<<30, 240>>, <<230, 260>>>>)
K2 == Cnt(2 * max_area - 1, min_circularity + 1, 50, 100, 100, 100,
          <<<<dark_threshold - 1, 3680>>, <<dark_threshold, 4320>>>>)
K3 == Cnt(1500, 880, 6, 49, 20, 30, <<<<30, 760>>>>)
\* rejected shapes, each failing exactly one criterion on its boundary; they
\* lie to the right of every accepted shape and are completely dark
R_small == Cnt(2 * min_area, 880, 180, 40, 40, 200, <<<<30, 500>>>>)
R_large == Cnt(2 * max_area, 880, 150, 100, 100, 200, <<<<30, 8000>>>>)
R_circ == Cnt(2514, min_circularity, 180, 40, 40, 200, <<<<30, 1270>>>>)
R_aspect == Cnt(2514, 880, 190, 20, 50, 200, <<<<30, 1270>>>>)
\* a rejected shape failing three criteria at once
R_multi == Cnt(2 * min_area - 2, min_circularity - 1, 185, 20, 60, 200, <<<<30, 480>>>>)

ContourTypes == {K1, K2, K3, R_small, R_large, R_circ, R_aspect, R_multi}

RECURSIVE SumSeq(_)
SumSeq(s) == IF s = <<>> THEN 0 ELSE s[1] + SumSeq(Tail(s))

\* np.sum(mask > 0): every pixel under the filled contour
mask_px(cnt) == SumSeq([k \in 1..Len(cnt.mask) |-> cnt.mask[k][2]])
\* faulty variant: a pixel equal to the threshold counts as dark
dark_px_le(cnt) ==
    SumSeq([k \in 1..Len(cnt.mask) |->
              IF cnt.mask[k][1] <= dark_threshold THEN cnt.mask[k][2] ELSE 0])

\* np.sum(enhanced[mask > 0] < self.dark_threshold)
dark_px(cnt) ==
    SumSeq([k \in 1..Len(cnt.mask) |->
              IF cnt.mask[k][1] < dark_threshold THEN cnt.mask[k][2] ELSE 0])
\* dark_px / np.sum(mask > 0) if np.sum(mask > 0) > 0 else 0
fill_ratio(cnt) ==
    IF mask_px(cnt) > 0 THEN <<dark_px(cnt), mask_px(cnt)>> ELSE <<0, 1>>

\* max(w, h) / min(w, h) if min(w, h) > 0 else 0
aspect_ratio(cnt) ==
    IF Min2(cnt.w, cnt.h) > 0 THEN <<Max2(cnt.w, cnt.h), Min2(cnt.w, cnt.h)>>
    ELSE <<0, 1>>

size_ok(cnt) == 2 * min_area < cnt.area2 /\ cnt.area2 < 2 * max_area

\* faulty variant: the shape bounds taken as inclusive
shape_ok_ge(cnt) ==
    /\ cnt.circ >= min_circularity
    /\ 10 * aspect_ratio(cnt)[1] <= max_aspect_ratio * aspect_ratio(cnt)[2]

shape_ok(cnt) ==
    /\ cnt.circ > min_circularity
    /\ 10 * aspect_ratio(cnt)[1] < max_aspect_ratio * aspect_ratio(cnt)[2]

\* int(M['m10'] / M['m00']): the x coordinate of the centroid
get_contour_center(cnt) == cnt.cx

\* faulty variant: only the first failed criterion is named
rejection_reason_first(cnt) ==
    IF ~size_ok(cnt)
    THEN (IF cnt.area2 <= 2 * min_area THEN <<"Too small">> ELSE <<"Too large">>)
    ELSE IF cnt.circ <= min_circularity THEN <<"Low circularity">>
    ELSE <<"High aspect ratio">>

rejection_reason(cnt) ==
    (IF ~size_ok(cnt)
        THEN (IF cnt.area2 <= 2 * min_area THEN <<"Too small">> ELSE <<"Too large">>)
        ELSE <<>>)
    \o (IF ~shape_ok(cnt)
        THEN (IF cnt.circ <= min_circularity THEN <<"Low circularity">> ELSE <<>>)
             \o (IF 10 * aspect_ratio(cnt)[1] >= max_aspect_ratio * aspect_ratio(cnt)[2]
                    THEN <<"High aspect ratio">> ELSE <<>>)
        ELSE <<>>)

\* one iteration of "for cnt in contours", cnt being the i-th contour found;
\* st holds the two lists built so far
loop_body(st, cnt, i) ==
    IF size_ok(cnt) /\ shape_ok(cnt)
    THEN [st EXCEPT !.bubbles = Append(@,
            [contour |-> i,
             center |-> get_contour_center(cnt),
             area2 |-> cnt.area2,
             circularity |-> cnt.circ,
             aspect_ratio |-> aspect_ratio(cnt),
             fill_ratio |-> fill_ratio(cnt)])]
    ELSE [st EXCEPT !.rejected = Append(@,
            [contour |-> i,
             area2 |-> cnt.area2,
             circularity |-> cnt.circ,
             aspect_ratio |-> aspect_ratio(cnt),
             rejection_reason |-> rejection_reason(cnt)])]

\* sort key b['center'][0] with reverse=True
RightOf(a, b) == a.center > b.center
LeftOf(a, b) == a.center < b.center

\* faulty variant: sorted left-to-right
sort_truncate_asc(bs) ==
    LET byx == StableSort(bs, [i \in 1..Len(bs) |-> [j \in 1..Len(bs) |-> LeftOf(bs[i], bs[j])]])
    IN SubSeq(byx, 1, Min2(MaxBubbles, Len(byx)))

\* faulty variant: the cut to 4 is missing
sort_no_truncate(bs) ==
    StableSort(bs, [i \in 1..Len(bs) |-> [j \in 1..Len(bs) |-> RightOf(bs[i], bs[j])]])

\* faulty variant: sorted ascending and then reversed, which turns the order
\* of candidates with equal x around
sort_truncate_reversed_ties(bs) ==
    LET asc == StableSort(bs, [i \in 1..Len(bs) |-> [j \in 1..Len(bs) |-> LeftOf(bs[i], bs[j])]])
        byx == [k \in 1..Len(asc) |-> asc[Len(asc) + 1 - k]]
    IN SubSeq(byx, 1, Min2(MaxBubbles, Len(byx)))

\* bubbles.sort(key=lambda b: b['center'][0], reverse=True); bubbles = bubbles[:4]
sort_truncate(bs) ==
    LET byx == StableSort(bs, [i \in 1..Len(bs) |-> [j \in 1..Len(bs) |-> RightOf(bs[i], bs[j])]])
    IN SubSeq(byx, 1, Min2(MaxBubbles, Len(byx)))

RECURSIVE find_loop(_, _, _)
find_loop(cs, i, st) ==
    IF i > Len(cs) THEN st ELSE find_loop(cs, i + 1, loop_body(st, cs[i], i))

\* faulty variant: a later call finds the candidates in another order (the
\* list is returned as collected, the cut applied without the sort)
find_bubbles_no_sort(cs) ==
    LET st == find_loop(cs, 1, [bubbles |-> <<>>, rejected |-> <<>>])
    IN [bubbles |-> SubSeq(st.bubbles, 1, Min2(MaxBubbles, Len(st.bubbles))),
        rejected |-> st.rejected]

\* BubbleDetector.find_bubbles: (bubbles, rejected)
find_bubbles(cs) ==
    LET st == find_loop(cs, 1, [bubbles |-> <<>>, rejected |-> <<>>])
    IN [bubbles |-> sort_truncate(st.bubbles), rejected |-> st.rejected]

\* fill ratio a > fill ratio b
FillGreater(a, b) == a[1] * b[2] > b[1] * a[2]
\* b['fill_ratio'] > self.fill_ratio_threshold
AboveThreshold(fr) == 100 * fr[1] > fill_ratio_threshold * fr[2]
AtLeastThreshold(fr) == 100 * fr[1] >= fill_ratio_threshold * fr[2]

\* faulty variant: a ratio equal to the threshold counts as marked
analyze_selections_ge(bs) ==
    LET idx == SelectSeq([i \in 1..Len(bs) |-> i - 1],
                         LAMBDA i : AtLeastThreshold(bs[i + 1].fill_ratio))
        Higher(i, j) == FillGreater(bs[i + 1].fill_ratio, bs[j + 1].fill_ratio)
    IN StableSort(idx, [i \in 1..Len(idx) |-> [j \in 1..Len(idx) |-> Higher(idx[i], idx[j])]])

\* faulty variant: position 0 is reported when there is no candidate at all
analyze_selections_default(bs) ==
    IF bs = <<>> THEN <<0>>
    ELSE LET idx == SelectSeq([i \in 1..Len(bs) |-> i - 1],
                              LAMBDA i : AboveThreshold(bs[i + 1].fill_ratio))
             Higher(i, j) == FillGreater(bs[i + 1].fill_ratio, bs[j + 1].fill_ratio)
         IN StableSort(idx, [i \in 1..Len(idx) |-> [j \in 1..Len(idx) |->
                                 Higher(idx[i], idx[j])]])

\* BubbleDetector.analyze_selections: positions (0-based) above the threshold,
\* highest fill ratio first
analyze_selections(bs) ==
    IF bs = <<>> THEN <<>>
    ELSE LET idx == SelectSeq([i \in 1..Len(bs) |-> i - 1],
                              LAMBDA i : AboveThreshold(bs[i + 1].fill_ratio))
             Higher(i, j) == FillGreater(bs[i + 1].fill_ratio, bs[j + 1].fill_ratio)
         IN StableSort(idx, [i \in 1..Len(idx) |-> [j \in 1..Len(idx) |->
                                 Higher(idx[i], idx[j])]])

(***************************************************************************)
(* The other readers of a row image                                        *)
(***************************************************************************)
\* BubbleDetector.visualize_with_answers: what is drawn on each bubble, in
\* list order: the outline colour and thickness, and whether the bubble gets
\* the box of the model answer
visualize_with_answers(bs, selected_indices, model_answer) ==
    [k \in 1..Len(bs) |->
        LET i == k - 1
            is_selected == \E n \in 1..Len(selected_indices) : selected_indices[n] = i
        IN [color |-> IF is_selected /\ i = model_answer THEN BubbleDetector_init.selected_color
                      ELSE IF is_selected THEN <<0, 0, 255>>
                      ELSE BubbleDetector_init.unselected_color,
            thickness |-> IF is_selected THEN 3 ELSE 1,
            box |-> (i = model_answer)]]

\* evaluate_questions.detect_bubbles
eq_min_area == 100
eq_max_area == 1000
eq_min_circularity == 700     \* 0.7, in thousandths
fill_threshold == 30          \* 0.3, in hundredths
min_confidence == 60          \* 0.6, in hundredths

\* the thresholds Otsu's method may pick for a row image
OtsuThresholds == {dark_threshold - 1, dark_threshold}

\* cv2.countNonZero(cv2.bitwise_and(binary, mask)), binary being the inverse
\* threshold of the image at otsu: a pixel counts when its intensity is <= otsu
filled_area(cnt, otsu) ==
    SumSeq([k \in 1..Len(cnt.mask) |->
              IF cnt.mask[k][1] <= otsu THEN cnt.mask[k][2] ELSE 0])

\* detect_bubbles: its list of bubbles (the first 4 after its sort), the
\* positions in that list it selects and their confidences (2 * filled_area
\* over twice the contour area)
detect_bubbles(cs, otsu) ==
    LET cand == SelectSeq(cs, LAMBDA c : /\ 2 * eq_min_area < c.area2
                                         /\ c.area2 < 2 * eq_max_area
                                         /\ c.circ > eq_min_circularity)
        \* bubbles.sort(key=lambda c: cv2.boundingRect(c)[0])
        byx == StableSort(cand, [i \in 1..Len(cand) |-> [j \in 1..Len(cand) |->
                                    cand[i].x < cand[j].x]])
        first == SubSeq(byx, 1, Min2(4, Len(byx)))
        ratio(c) == <<2 * filled_area(c, otsu), c.area2>>
        sel == SelectSeq([i \in 1..Len(first) |-> i - 1],
                         LAMBDA i : 100 * ratio(first[i + 1])[1]
                                       > fill_threshold * ratio(first[i + 1])[2])
    IN [bubbles |-> first,
        selected_positions |-> sel,
        confidences |-> [n \in 1..Len(sel) |-> ratio(first[sel[n] + 1])]]

\* evaluate_question_image: the selections of detect_bubbles with a
\* confidence of at least 0.6
evaluate_question_image(cs, otsu) ==
    LET d == detect_bubbles(cs, otsu)
        keep == SelectSeq([n \in 1..Len(d.selected_positions) |-> n],
                          LAMBDA n : 100 * d.confidences[n][1]
                                        >= min_confidence * d.confidences[n][2])
    IN [bubbles |-> d.bubbles,
        selected_positions |-> [n \in 1..Len(keep) |-> d.selected_positions[keep[n]]],
        confidences |-> [n \in 1..Len(keep) |-> d.confidences[keep[n]]]]

\* evaluate_questions_bubble_detection.process_question, on what
\* detector.process returned
STR_null == "null"
process_question_bd(bs, sel, question_number) ==
    [question_number |-> question_number,
     bubbles_detected |-> Len(bs),
     selected_bubbles |-> IF sel # <<>> THEN [n \in 1..Len(sel) |-> sel[n] + 1]
                          ELSE <<STR_null>>,
     fill_ratios |-> [k \in 1..Len(bs) |-> bs[k].fill_ratio]]

(***************************************************************************)
(* BubbleDetector.process on one row image, contour by contour             *)
(***************************************************************************)
\* the pipeline is not running
RunOff ==
    /\ image_readable = FALSE
    /\ sheet = <<>>
    /\ write_fail = {} /\ read_fail = {} /\ detect_fail = {}
    /\ dirs_missing = {}
    /\ model_answers = None
    /\ pc = "off"
    /\ cropped_image = None
    /\ sections = None
    /\ sec_i = 0
    /\ row_crops = <<>>
    /\ question_files = <<>>
    /\ file_i = 0
    /\ all_answers = <<>>
    /\ returned = None
    /\ io_log = <<>>
    /\ http = None

\* process_images is not running
NormOff ==
    /\ n_pc = "off"
    /\ n_input = None
    /\ n_image = None
    /\ n_result = None

\* no fill measurement is going on
FillOff ==
    /\ f_pc = "off"
    /\ f_pixels = <<>>
    /\ f_ratio = None

\* divide_image_into_questions is not running on its own
DivOff ==
    /\ q_pc = "off"
    /\ q_height = 0
    /\ q_crops = <<>>

\* crop_into_thirds is not running on its own
ThirdsOff ==
    /\ t_pc = "off"
    /\ t_image = None
    /\ t_parts = None

\* combine_images has not been called and output_dir is empty
CombOff ==
    /\ c_clock = 0
    /\ c_results = None
    /\ c_out = {}
    /\ c_written = {}
    /\ c_last = None
    /\ c_ret = None

AuxOff == DivOff /\ ThirdsOff /\ CombOff

DetInit ==
    /\ d_pc = "loop"
    /\ detector = Some(BubbleDetector_init)
    /\ alt_result = None
    /\ contours = <<>>
    /\ bubbles = <<>>
    /\ rejected = <<>>
    /\ selected = <<>>
    /\ RunOff
    /\ NormOff
    /\ FillOff
    /\ AuxOff

\* cv2.findContours yields one more contour and the loop of find_bubbles
\* classifies it
DetContour ==
    /\ d_pc = "loop"
    /\ Len(contours) < MaxContours
    /\ \E cnt \in ContourTypes :
          LET st == loop_body([bubbles |-> bubbles, rejected |-> rejected],
                              cnt, Len(contours) + 1)
          IN /\ contours' = Append(contours, cnt)
             /\ bubbles' = st.bubbles
             /\ rejected' = st.rejected
    /\ UNCHANGED <<d_pc, detector, alt_result, selected, in_vars, run_vars, norm_vars, fill_vars,
                   aux_vars>>

\* the loop is over: sort, truncate, then analyze_selections
DetFinish ==
    /\ d_pc = "loop"
    /\ bubbles' = sort_truncate(bubbles)
    /\ selected' = analyze_selections(bubbles')
    /\ d_pc' = "done"
    /\ UNCHANGED <<detector, alt_result, contours, rejected, in_vars, run_vars, norm_vars, fill_vars,
                   aux_vars>>

\* process is called once more on the same row image, with the same detector
\* object
DetRerun ==
    /\ d_pc = "done"
    /\ LET found == find_bubbles(contours)
       IN /\ bubbles' = found.bubbles
          /\ rejected' = found.rejected
          /\ selected' = analyze_selections(found.bubbles)
    /\ d_pc' = "rerun"
    /\ UNCHANGED <<detector, alt_result, contours, in_vars, run_vars, norm_vars, fill_vars,
                   aux_vars>>

\* the same row image is given to the other readers: the drawing against a
\* model answer and the two stand-alone evaluators
EvaluateQuestions ==
    /\ d_pc = "done"
    /\ \E otsu \in OtsuThresholds, model_answer \in 0..(MaxBubbles - 1) :
          alt_result' = Some(
            [model_answer |-> model_answer,
             vis |-> visualize_with_answers(bubbles, selected, model_answer),
             eq |-> evaluate_question_image(contours, otsu),
             bd |-> process_question_bd(bubbles, selected, 1)])
    /\ d_pc' = "evaluated"
    /\ UNCHANGED <<detector, contours, bubbles, rejected, selected,
                   in_vars, run_vars, norm_vars, fill_vars,
                   aux_vars>>

DetNext == DetContour \/ DetFinish \/ DetRerun \/ EvaluateQuestions

DetSpec == DetInit /\ [][DetNext]_vars

(***************************************************************************)
(* Numbering mappers                                                       *)
(***************************************************************************)
Sections == {"left", "middle", "right"}

\* faulty variant: left and middle share an offset
get_section_question_number_swapped(section, local_number) ==
    LET section_offsets == [left |-> 15, middle |-> 15, right |-> 0]
    IN section_offsets[section] + local_number

\* bubble_scanner.get_section_question_number
get_section_question_number(section, local_number) ==
    LET section_offsets == [left |-> 30, middle |-> 15, right |-> 0]
    IN section_offsets[section] + local_number

\* faulty variant: the sections numbered left-to-right
get_adjusted_question_number_lr(part, local_question_num) ==
    IF part = "right" THEN local_question_num + 30
    ELSE IF part = "middle" THEN local_question_num + 15
    ELSE local_question_num

\* evaluate_questions.get_adjusted_question_number
get_adjusted_question_number(part, local_question_num) ==
    IF part = "left" THEN local_question_num + 30
    ELSE IF part = "middle" THEN local_question_num + 15
    ELSE local_question_num

\* evaluate_questions_bubble_detection.get_section_question_number
get_section_question_number_bd(section, file_number) ==
    IF section = "left" THEN file_number + 30
    ELSE IF section = "middle" THEN file_number + 15
    ELSE file_number

(***************************************************************************)
(* Strings, as lists of character codes                                    *)
(***************************************************************************)
\* "question_"
STR_question == <<113, 117, 101, 115, 116, 105, 111, 110, 95>>
\* ".jpg"
STR_jpg == <<46, 106, 112, 103>>
\* "_orig.jpg"
STR_orig_jpg == <<95, 111, 114, 105, 103>> \o STR_jpg

RECURSIVE str(_)
\* str(n) for n >= 0
str(n) == IF n < 10 THEN <<48 + n>> ELSE str(n \div 10) \o <<48 + (n % 10)>>

RECURSIVE int(_)
\* int(s) for a string of decimal digits
int(s) == IF s = <<>> THEN 0 ELSE 10 * int(SubSeq(s, 1, Len(s) - 1)) + (s[Len(s)] - 48)

startswith(s, p) == Len(s) >= Len(p) /\ SubSeq(s, 1, Len(p)) = p
endswith(s, p) == Len(s) >= Len(p) /\ SubSeq(s, Len(s) - Len(p) + 1, Len(s)) = p

RECURSIVE replace(_, _)
\* s.replace(old, '')
replace(s, old) ==
    IF Len(s) < Len(old) \/ s = <<>> THEN s
    ELSE IF startswith(s, old) THEN replace(SubSeq(s, Len(old) + 1, Len(s)), old)
    ELSE <<s[1]>> \o replace(Tail(s), old)

\* a < b for Python strings: decided at the first position where they differ
StrLess(a, b) ==
    LET n == Min2(Len(a), Len(b))
        diff == {k \in 1..n : a[k] # b[k]}
    IN IF diff = {} THEN Len(a) < Len(b)
       ELSE LET k == CHOOSE k \in diff : \A j \in diff : k <= j
            IN a[k] < b[k]

RECURSIVE sorted(_)
\* sorted(names) for a set of strings
sorted(names) ==
    IF names = {} THEN <<>>
    ELSE LET x == CHOOSE x \in names : TRUE
             rest == sorted(names \ {x})
             k == Cardinality({j \in 1..Len(rest) : StrLess(rest[j], x)})
         IN SubSeq(rest, 1, k) \o <<x>> \o SubSeq(rest, k + 1, Len(rest))

\* f"question_{i}.jpg"
question_file_name(i) == STR_question \o str(i) \o STR_jpg
\* f"question_{n}"
question_key(n) == STR_question \o str(n)

(***************************************************************************)
(* Normalizer and partitioner                                              *)
(***************************************************************************)
standard_width == 800
standard_height == 600
TrimMargin == 60
num_questions == 15
overlap == 5
vis_overlap == 2

\* faulty variant: the read failure is not propagated
process_images_always(readable) ==
    Some([width |-> standard_width, height |-> standard_height])

\* image_croping.process_images: detect_and_crop_border raises ValueError on an
\* unreadable image, which process_images turns into None; otherwise the
\* enhanced image is resized to the standard size
process_images(readable) ==
    IF readable THEN Some([width |-> standard_width, height |-> standard_height])
    ELSE None

\* faulty variant: three bands of equal width, the remainder columns dropped
crop_into_thirds_equal(image) ==
    LET segment_width == image.width \div 3
        band(x0, x1) == [x0 |-> x0, x1 |-> x1,
                         y0 |-> TrimMargin, y1 |-> image.height - TrimMargin]
    IN [left |-> band(0, segment_width),
        middle |-> band(segment_width, segment_width * 2),
        right |-> band(segment_width * 2, segment_width * 3)]

\* image_processing.crop_into_thirds: the column and row ranges of the bands
crop_into_thirds(image) ==
    LET segment_width == image.width \div 3
        band(x0, x1) == [x0 |-> x0, x1 |-> x1,
                         y0 |-> TrimMargin, y1 |-> image.height - TrimMargin]
    IN [left |-> band(0, segment_width),
        middle |-> band(segment_width, segment_width * 2),
        right |-> band(segment_width * 2, image.width)]

\* img.shape[0] of a band
BandHeight(b) == Max2(0, b.y1 - b.y0)

\* sections = {'right': ..., 'middle': ..., 'left': ...}: iteration order
SectionOrder == <<"right", "middle", "left">>

\* faulty variant: the overlap of create_cut_visualization (2) used for the crops
divide_rows_vis_overlap(height) ==
    LET section_height == height \div num_questions
    IN [i \in 1..num_questions |->
          [start_y |-> Max2(0, (i - 1) * section_height - vis_overlap),
           end_y |-> Min2(height, i * section_height + vis_overlap)]]

\* faulty variant: the crop is not clamped to the section
divide_rows_unclamped(height) ==
    LET section_height == height \div num_questions
    IN [i \in 1..num_questions |->
          [start_y |-> (i - 1) * section_height - overlap,
           end_y |-> i * section_height + overlap]]

\* divide_questions.divide_image_into_questions: the row range of each of the
\* 15 crops of a section of the given height (crop i is loop index i - 1)
divide_rows(height) ==
    LET section_height == height \div num_questions
    IN [i \in 1..num_questions |->
          [start_y |-> Max2(0, (i - 1) * section_height - overlap),
           end_y |-> Min2(height, i * section_height + overlap)]]

(***************************************************************************)
(* Inputs of process_bubble_sheet                                          *)
(***************************************************************************)
Rows == Sections \X (1..num_questions)

\* the contours that row images of the sheet may show
RowScenes ==
    << <<>>,
       <<K3, R_circ, K1>>,
       <<K1, K2, K3, K2>>,
       <<K3, K1, K2, K1, K3, R_aspect>>,
       <<R_small, R_aspect>>,
       <<K2, K2, K1, K2>> >>
BaseScenes == {3}

ModelAnswerInputs == {None, Some(<<2, 0, 1>>)}

\* the file question_<i>.jpg written by divide_image_into_questions for a
\* section holds that section's crop i
FileRow(section_name, file) ==
    <<section_name, CHOOSE i \in 1..num_questions : question_file_name(i) = file>>

\* os.listdir(questions_dir): the files that were written
listdir(section_name) ==
    {question_file_name(i) : i \in {j \in 1..num_questions : <<section_name, j>> \notin write_fail}}

(***************************************************************************)
(* process_bubble_sheet                                                    *)
(***************************************************************************)
\* faulty variant: fill_ratios padded with 0 to 4 entries
question_result_padded(global_question_num, model_answer, bs, sel) ==
    LET valid_selected == SelectSeq(sel, LAMBDA s : s < 4)
    IN [question_number |-> global_question_num,
        answer |-> IF sel # <<>> /\ valid_selected # <<>> THEN Some(valid_selected) ELSE None,
        fill_ratios |-> [k \in 1..MaxBubbles |->
                            IF k <= Len(bs) THEN bs[k].fill_ratio ELSE <<0, 1>>],
        bubbles_detected |-> Len(bs),
        model_answer |-> model_answer]

\* lines 121-142: the question_result of a row whose detection succeeded
question_result(global_question_num, model_answer, bs, sel) ==
    LET valid_selected == SelectSeq(sel, LAMBDA s : s < 4)
    IN [question_number |-> global_question_num,
        answer |-> IF sel # <<>> /\ valid_selected # <<>> THEN Some(valid_selected) ELSE None,
        fill_ratios |-> [k \in 1..Len(bs) |-> bs[k].fill_ratio],
        bubbles_detected |-> Len(bs),
        model_answer |-> model_answer]

\* faulty variant: a question beyond the list gets the last model answer
lookup_model_answer_clamped(global_question_num) ==
    IF ~IsNone(model_answers) /\ Len(Val(model_answers)) > 0
    THEN Some(Val(model_answers)[Min2(global_question_num, Len(Val(model_answers)))])
    ELSE None

\* lines 104-107
lookup_model_answer(global_question_num) ==
    IF ~IsNone(model_answers)
       /\ 0 <= global_question_num - 1
       /\ global_question_num - 1 < Len(Val(model_answers))
    THEN Some(Val(model_answers)[global_question_num])
    ELSE None

\* faulty variant: an unreadable row gets an empty decision
process_question_synthesize(answers, section_name, question_file) ==
    LET local_question_num == int(replace(replace(question_file, STR_question), STR_jpg))
        global_question_num == get_section_question_number(section_name, local_question_num)
        row == FileRow(section_name, question_file)
        found == find_bubbles(RowScenes[sheet[row]])
    IN IF row \in read_fail \/ row \in detect_fail
       THEN Append(answers, question_result(global_question_num, None, <<>>, <<>>))
       ELSE Append(answers, question_result(global_question_num,
                       lookup_model_answer(global_question_num),
                       found.bubbles, analyze_selections(found.bubbles)))

\* faulty variant: a failing row discards what was collected before it
process_question_abort(answers, section_name, question_file) ==
    LET local_question_num == int(replace(replace(question_file, STR_question), STR_jpg))
        global_question_num == get_section_question_number(section_name, local_question_num)
        row == FileRow(section_name, question_file)
        found == find_bubbles(RowScenes[sheet[row]])
    IN IF row \in read_fail \/ row \in detect_fail
       THEN <<>>
       ELSE Append(answers, question_result(global_question_num,
                       lookup_model_answer(global_question_num),
                       found.bubbles, analyze_selections(found.bubbles)))

\* faulty variant: a row with fewer than 4 candidates is treated as a failure
process_question_require_four(answers, section_name, question_file) ==
    LET local_question_num == int(replace(replace(question_file, STR_question), STR_jpg))
        global_question_num == get_section_question_number(section_name, local_question_num)
        row == FileRow(section_name, question_file)
        found == find_bubbles(RowScenes[sheet[row]])
    IN IF row \in read_fail \/ row \in detect_fail \/ Len(found.bubbles) < MaxBubbles
       THEN answers
       ELSE Append(answers, question_result(global_question_num,
                       lookup_model_answer(global_question_num),
                       found.bubbles, analyze_selections(found.bubbles)))

\* lines 93-142: one iteration of "for question_file in question_files"
process_question(answers, section_name, question_file) ==
    LET local_question_num == int(replace(replace(question_file, STR_question), STR_jpg))
        global_question_num == get_section_question_number(section_name, local_question_num)
        row == FileRow(section_name, question_file)
        found == find_bubbles(RowScenes[sheet[row]])
    IN IF row \in read_fail THEN answers              \* question_img is None
       ELSE IF row \in detect_fail THEN answers       \* result is None
       ELSE Append(answers, question_result(global_question_num,
                       lookup_model_answer(global_question_num),
                       found.bubbles, analyze_selections(found.bubbles)))

\* results_dict[key] = value
DictSet(d, key, value) ==
    IF \E k \in 1..Len(d) : d[k].key = key
    THEN [k \in 1..Len(d) |-> IF d[k].key = key THEN [key |-> key, value |-> value] ELSE d[k]]
    ELSE Append(d, [key |-> key, value |-> value])

\* faulty variant: the sort by question number is missing
NumberBefore_never(a, b) == FALSE

\* key=lambda x: x['question_number']
NumberBefore(a, b) == a.question_number < b.question_number

RECURSIVE build_results(_, _)
\* lines 148-156, over the first n entries of the sorted answers
build_results(answers, n) ==
    IF n = 0 THEN <<>>
    ELSE DictSet(build_results(answers, n - 1),
                 question_key(answers[n].question_number),
                 [answer |-> answers[n].answer,
                  fill_ratios |-> answers[n].fill_ratios,
                  bubbles_detected |-> answers[n].bubbles_detected,
                  model_answer |-> answers[n].model_answer])

(***************************************************************************)
(* Files.  A path is a directory (the list of its components below         *)
(* output_dir) and a file name; an io_log entry names the operation, the   *)
(* unit of work doing it (<<section, row>>; row 0 for the work done once   *)
(* per section, <<"sheet", 0>> for the work done once per sheet) and the   *)
(* path.                                                                   *)
(***************************************************************************)
\* "cut_lines.jpg"
STR_cut_lines == <<99, 117, 116, 95, 108, 105, 110, 101, 115, 46, 106, 112, 103>>
\* "detailed_results.json"
STR_detailed_results == <<100, 101, 116, 97, 105, 108, 101, 100, 95, 114, 101, 115, 117, 108, 116, 115, 46, 106, 115, 111, 110>>
\* "summary.txt"
STR_summary == <<115, 117, 109, 109, 97, 114, 121, 46, 116, 120, 116>>

\* os.path.join(output_dir, 'temp'), os.path.join(output_dir, 'results')
temp_dir == <<"temp">>
results_dir == <<"results">>

\* faulty variant: one directory for the three sections
section_dir_shared(section_name) == temp_dir \o <<"bubble_sheet", "all">>

\* os.path.join(temp_dir, f'bubble_sheet_{section_name}')
section_dir(section_name) == temp_dir \o <<"bubble_sheet", section_name>>

\* os.path.join(section_dir, "questions")
questions_dir(section_name) == section_dir(section_name) \o <<"questions">>

\* os.path.join(output_base_dir, "visualizations")
vis_dir(section_name) == section_dir(section_name) \o <<"visualizations">>

IoEntry(op, by, dir, name) == [op |-> op, by |-> by, dir |-> dir, name |-> name]

\* divide_image_into_questions: the cut visualisation, then one crop per row
\* (a crop whose cv2.imwrite fails leaves no file)
divide_io(section_name) ==
    <<IoEntry("write", <<section_name, 0>>, vis_dir(section_name), STR_cut_lines)>>
    \o SelectSeq([i \in 1..num_questions |->
                    IoEntry("write", <<section_name, i>>, questions_dir(section_name),
                            question_file_name(i))],
                 LAMBDA e : e.by \notin write_fail /\ section_name \notin dirs_missing)

\* lines 93-118: the file accesses of one iteration
question_io(section_name, question_file) ==
    LET local_question_num == int(replace(replace(question_file, STR_question), STR_jpg))
        global_question_num == get_section_question_number(section_name, local_question_num)
        row == FileRow(section_name, question_file)
        \* cv2.imread(question_path), line 99
        read1 == IoEntry("read", row, questions_dir(section_name), question_file)
        \* cv2.imread(img_path) in BubbleDetector.process
        read2 == IoEntry("read", row, questions_dir(section_name), question_file)
        \* cv2.imwrite(output_path, result), line 118
        write == IoEntry("write", row, results_dir,
                         STR_question \o str(global_question_num) \o STR_jpg)
    IN IF row \in read_fail THEN <<read1>>
       ELSE IF row \in detect_fail THEN <<read1, read2>>
       ELSE <<read1, read2, write>>

\* lines 158-194: the two reports
report_io ==
    <<IoEntry("write", <<"sheet", 0>>, results_dir, STR_detailed_results),
      IoEntry("write", <<"sheet", 0>>, results_dir, STR_summary)>>

DetOff ==
    /\ d_pc = "off"
    /\ detector = None
    /\ alt_result = None
    /\ contours = <<>>
    /\ bubbles = <<>>
    /\ rejected = <<>>
    /\ selected = <<>>

\* the sheets: every row shows the base scene but one row chosen freely; at
\* most one kind of I/O fault happens per run
Init ==
    /\ DetOff
    /\ NormOff
    /\ FillOff
    /\ AuxOff
    /\ image_readable \in BOOLEAN
    /\ \E base \in BaseScenes, special \in Rows, scene \in 1..Len(RowScenes),
          kind \in {"none", "write", "read", "detect", "dir"},
          missing \in SUBSET Sections :
          /\ image_readable \/ (kind = "none" /\ scene = base)
          /\ kind = "dir" \/ missing = {}
          /\ kind = "none" \/ scene = base
          /\ sheet = [r \in Rows |-> IF r = special THEN scene ELSE base]
          /\ write_fail = IF kind = "write" THEN {special} ELSE {}
          /\ read_fail = IF kind = "read" THEN {special} ELSE {}
          /\ detect_fail = IF kind = "detect" THEN {special} ELSE {}
          /\ dirs_missing = missing
    /\ model_answers \in ModelAnswerInputs
    /\ pc = "start"
    /\ cropped_image = None
    /\ sections = None
    /\ sec_i = 0
    /\ row_crops = [s \in Sections |-> <<>>]
    /\ question_files = <<>>
    /\ file_i = 0
    /\ all_answers = <<>>
    /\ returned = None
    /\ io_log = <<>>
    /\ http = None

\* lines 45-66: process_images, crop_into_thirds
ProcessImages ==
    /\ pc = "start"
    /\ cropped_image' = process_images(image_readable)
    /\ IF IsNone(cropped_image')
       THEN /\ pc' = "done"
            /\ UNCHANGED <<sections, sec_i>>
       ELSE /\ sections' = Some(crop_into_thirds(Val(cropped_image')))
            /\ sec_i' = 1
            /\ pc' = "section"
    /\ UNCHANGED <<row_crops, question_files, file_i, all_answers, returned, io_log,
                   http, det_vars, in_vars, norm_vars, fill_vars,
                   aux_vars>>

\* lines 69-91: divide the next section and list its question files
BeginSection ==
    /\ pc = "section"
    /\ sec_i <= Len(SectionOrder)
    /\ LET section_name == SectionOrder[sec_i]
           section_image == Val(sections)[section_name]
       IN /\ row_crops' = [row_crops EXCEPT
                             ![section_name] = divide_rows(BandHeight(section_image))]
          /\ IF section_name \in dirs_missing \/ listdir(section_name) = {}
             THEN /\ question_files' = <<>>
                  /\ file_i' = 0
                  /\ sec_i' = sec_i + 1
                  /\ pc' = "section"
             ELSE /\ question_files' =
                        sorted({f \in listdir(section_name) :
                                  startswith(f, STR_question) /\ ~endswith(f, STR_orig_jpg)})
                  /\ file_i' = 1
                  /\ sec_i' = sec_i
                  /\ pc' = "rows"
    /\ io_log' = io_log \o divide_io(SectionOrder[sec_i])
    /\ UNCHANGED <<cropped_image, sections, all_answers, returned, http, det_vars, in_vars,
                   norm_vars, fill_vars,
                   aux_vars>>

\* lines 93-142: one question file
ProcessQuestion ==
    /\ pc = "rows"
    /\ all_answers' = process_question(all_answers, SectionOrder[sec_i],
                                       question_files[file_i])
    /\ IF file_i < Len(question_files)
       THEN /\ file_i' = file_i + 1
            /\ UNCHANGED <<sec_i, pc>>
       ELSE /\ file_i' = 0
            /\ sec_i' = sec_i + 1
            /\ pc' = "section"
    /\ io_log' = io_log \o question_io(SectionOrder[sec_i], question_files[file_i])
    /\ UNCHANGED <<cropped_image, sections, row_crops, question_files, returned, http,
                   det_vars, in_vars, norm_vars, fill_vars,
                   aux_vars>>

\* lines 144-197: sort, build results_dict, return it
Finish ==
    /\ pc = "section"
    /\ sec_i > Len(SectionOrder)
    /\ all_answers' = StableSort(all_answers,
                          [i \in 1..Len(all_answers) |-> [j \in 1..Len(all_answers) |->
                              NumberBefore(all_answers[i], all_answers[j])]])
    /\ returned' = Some(build_results(all_answers', Len(all_answers')))
    /\ io_log' = io_log \o report_io
    /\ pc' = "done"
    /\ UNCHANGED <<cropped_image, sections, sec_i, row_crops, question_files, file_i,
                   http, det_vars, in_vars, norm_vars, fill_vars,
                   aux_vars>>

(***************************************************************************)
(* The grading callers of process_bubble_sheet (main.py)                   *)
(***************************************************************************)
REQUIRED_BUBBLES_PER_QUESTION == 4

\* key in results / results[key] / results.get(key, default) on the
\* dictionary process_bubble_sheet returns
DictHas(d, key) == \E k \in 1..Len(d) : d[k].key = key
DictGet(d, key) == d[CHOOSE k \in 1..Len(d) : d[k].key = key].value

\* question_data.get('detected_answers', [])
get_detected_answers(question_data) ==
    IF "detected_answers" \in DOMAIN question_data
    THEN question_data["detected_answers"] ELSE <<>>

\* question_data.get('fill_ratios', [])
get_fill_ratios(question_data) ==
    IF "fill_ratios" \in DOMAIN question_data THEN question_data["fill_ratios"] ELSE <<>>

\* BubbleSheetValidator.validate_results
validate_results(results) ==
    /\ results # <<>>
    /\ \A k \in 1..Len(results) :
          startswith(results[k].key, STR_question) =>
             /\ "bubbles_detected" \in DOMAIN results[k].value
             /\ results[k].value.bubbles_detected = REQUIRED_BUBBLES_PER_QUESTION

HttpError(status_code) == [status_code |-> status_code]

\* lines 390-454: the iterations i, i+1, .. of the evaluation loop;
\* question_data is the local variable of that name (None while unbound), st
\* holds evaluation_results and correct_count
RECURSIVE evaluate_loop(_, _, _, _, _)
evaluate_loop(results, answers, i, question_data, st) ==
    IF i >= Len(answers) THEN st
    ELSE
      LET question_key_i == question_key(i + 1)
          found == DictHas(results, question_key_i)
          data == IF found THEN Some(DictGet(results, question_key_i)) ELSE question_data
          student_answers == IF found THEN get_detected_answers(Val(data)) ELSE <<>>
          correct_answer == answers[i + 1]
          has_multiple_answers == Len(student_answers) > 1
          is_correct == /\ ~has_multiple_answers
                        /\ Len(student_answers) = 1
                        /\ student_answers[1] = correct_answer
          student_answer_display ==
              IF student_answers = <<>> THEN [kind |-> "No Answer", text |-> <<>>]
              ELSE IF has_multiple_answers THEN [kind |-> "Multiple", text |-> student_answers]
              ELSE [kind |-> "Single", text |-> str(student_answers[1])]
          entry ==
              IF IsNone(data)
              \* question_data is read at line 428 before it was ever bound: the
              \* NameError is caught at line 443
              THEN [question |-> i + 1, error |-> TRUE, student_answers |-> <<>>,
                    student_answer_display |-> [kind |-> "Error", text |-> <<>>],
                    correct_answer |-> correct_answer, is_correct |-> FALSE,
                    has_multiple_answers |-> FALSE, fill_ratios |-> <<>>]
              ELSE [question |-> i + 1, error |-> FALSE, student_answers |-> student_answers,
                    student_answer_display |-> student_answer_display,
                    correct_answer |-> correct_answer, is_correct |-> is_correct,
                    has_multiple_answers |-> has_multiple_answers,
                    fill_ratios |-> get_fill_ratios(Val(data))]
      IN evaluate_loop(results, answers, i + 1, data,
            [evaluation_results |-> Append(st.evaluation_results, entry),
             correct_count |-> st.correct_count + (IF is_correct THEN 1 ELSE 0)])

\* POST /evaluate, from the call of process_bubble_sheet on: results is what
\* it returned, answers the stored model answers (number_of_questions is
\* their length), combine_ok whether combine_images produced its file
evaluate_bubble_sheet(results, answers, combine_ok) ==
    IF IsNone(results) THEN HttpError(500)
    ELSE IF ~validate_results(Val(results)) THEN HttpError(400)
    ELSE IF ~combine_ok THEN HttpError(500)
    ELSE LET st == evaluate_loop(Val(results), answers, 0, None,
                                 [evaluation_results |-> <<>>, correct_count |-> 0])
             ev == st.evaluation_results
         IN \* correct_count / number_of_questions raises for no question
            IF Len(answers) = 0 THEN HttpError(500)
            ELSE [status_code |-> 200,
                  endpoint |-> "evaluate",
                  evaluation_results |-> ev,
                  total_questions |-> Len(answers),
                  correct_answers |-> st.correct_count,
                  score |-> <<100 * st.correct_count, Len(answers)>>,
                  questions_with_multiple_answers |->
                      Cardinality({k \in 1..Len(ev) : ev[k].has_multiple_answers})]

\* lines 557-570: the iterations idx, idx+1, .. of the grading loop; a student
\* answer is a list (kind "list"), a single position (kind "int") or None
RECURSIVE grade_loop(_, _, _, _, _)
grade_loop(results, question_numbers, model_answers_list, idx, st) ==
    IF idx >= Len(question_numbers) THEN st
    ELSE
      LET qnum == question_numbers[idx + 1]
          question_key_q == question_key(qnum)
          detected_answers ==
              IF DictHas(results, question_key_q)
              THEN get_detected_answers(DictGet(results, question_key_q)) ELSE <<>>
      IN grade_loop(results, question_numbers, model_answers_list, idx + 1,
            IF Len(detected_answers) > 1
            THEN [st EXCEPT !.student_answers =
                                Append(@, [key |-> str(qnum),
                                           value |-> [kind |-> "list", v |-> detected_answers]]),
                            !.multi_answers = Append(@, qnum)]
            ELSE IF Len(detected_answers) = 1
            THEN [st EXCEPT !.student_answers =
                                Append(@, [key |-> str(qnum),
                                           value |-> [kind |-> "int",
                                                      v |-> <<detected_answers[1]>>]]),
                            !.correct_count =
                                @ + (IF detected_answers[1] = model_answers_list[idx + 1]
                                     THEN 1 ELSE 0)]
            ELSE [st EXCEPT !.student_answers =
                                Append(@, [key |-> str(qnum),
                                           value |-> [kind |-> "None", v |-> <<>>]])])

\* POST /grade, from the call of process_bubble_sheet on, for an answer_key
\* with the keys "1" .. "n" whose values are model_answers_list
grade_bubble_sheet(results, model_answers_list, combine_ok) ==
    IF IsNone(results) THEN HttpError(500)
    ELSE IF ~validate_results(Val(results)) THEN HttpError(400)
    ELSE LET question_numbers == [k \in 1..Len(model_answers_list) |-> k]
             st == grade_loop(Val(results), question_numbers, model_answers_list, 0,
                              [student_answers |-> <<>>, correct_count |-> 0,
                               multi_answers |-> <<>>])
         IN IF ~combine_ok THEN HttpError(500)
            ELSE [status_code |-> 200,
                  endpoint |-> "grade",
                  student_answers |-> st.student_answers,
                  correct_answers |-> st.correct_count,
                  score |-> IF Len(model_answers_list) > 0
                            THEN <<100 * st.correct_count, Len(model_answers_list)>>
                            ELSE <<0, 1>>,
                  total_questions |-> Len(model_answers_list),
                  multi_answer_questions |-> st.multi_answers]

\* POST /upload, from the call of process_bubble_sheet (without model answers)
\* on: results is what it returned, combine_ok whether combine_images left its
\* file
upload_file(results, combine_ok) ==
    IF IsNone(results) THEN HttpError(500)
    ELSE
      LET res == Val(results)
          \* lines 205-214
          invalid_questions ==
              SelectSeq([k \in 1..Len(res) |->
                            [question_number |-> replace(res[k].key, STR_question),
                             bubbles_detected |-> res[k].value.bubbles_detected,
                             is_question |-> startswith(res[k].key, STR_question)]],
                        LAMBDA q : q.is_question
                                   /\ q.bubbles_detected # REQUIRED_BUBBLES_PER_QUESTION)
          \* line 227: qdata.get('bubbles_detected', 4) != 4
          not_four_bubbles ==
              SelectSeq([k \in 1..Len(res) |-> res[k]],
                        LAMBDA e : (IF "bubbles_detected" \in DOMAIN e.value
                                    THEN e.value.bubbles_detected ELSE 4) # 4)
      IN IF not_four_bubbles # <<>> THEN HttpError(400)
         ELSE IF ~combine_ok
         THEN [status_code |-> 200, endpoint |-> "upload", results |-> res,
               error |-> TRUE]
         ELSE [status_code |-> 200, endpoint |-> "upload", results |-> res,
               error |-> FALSE,
               has_errors |-> Len(invalid_questions) > 0,
               invalid_questions |-> invalid_questions,
               total_questions |->
                   Cardinality({k \in 1..Len(res) : startswith(res[k].key, STR_question)})]

\* POST /upload answers for the sheet just processed
Upload ==
    /\ pc = "done"
    /\ IsNone(http)
    /\ IsNone(model_answers)
    /\ \E combine_ok \in BOOLEAN :
          http' = Some(upload_file(returned, combine_ok))
    /\ UNCHANGED <<pc, cropped_image, sections, sec_i, row_crops, question_files, file_i,
                   all_answers, returned, io_log, det_vars, in_vars, norm_vars, fill_vars,
                   aux_vars>>

\* POST /evaluate answers for the sheet just processed
Evaluate ==
    /\ pc = "done"
    /\ IsNone(http)
    /\ ~IsNone(model_answers)
    /\ \E combine_ok \in BOOLEAN :
          http' = Some(evaluate_bubble_sheet(returned, Val(model_answers), combine_ok))
    /\ UNCHANGED <<pc, cropped_image, sections, sec_i, row_crops, question_files, file_i,
                   all_answers, returned, io_log, det_vars, in_vars, norm_vars, fill_vars,
                   aux_vars>>

\* POST /grade answers for the sheet just processed
Grade ==
    /\ pc = "done"
    /\ IsNone(http)
    /\ ~IsNone(model_answers)
    /\ \E combine_ok \in BOOLEAN :
          http' = Some(grade_bubble_sheet(returned, Val(model_answers), combine_ok))
    /\ UNCHANGED <<pc, cropped_image, sections, sec_i, row_crops, question_files, file_i,
                   all_answers, returned, io_log, det_vars, in_vars, norm_vars, fill_vars,
                   aux_vars>>

Next ==
    ProcessImages \/ BeginSection \/ ProcessQuestion \/ Finish \/ Upload \/ Evaluate \/ Grade

Spec == Init /\ [][Next]_vars

(***************************************************************************)
(* process_images on one photograph (image_croping.py).  An image is known *)
(* by its shape; the border search is known by what cv2.findContours and   *)
(* cv2.approxPolyDP return for the largest contour.                        *)
(***************************************************************************)
MaxCoord == 2
border_padding == 10

\* the coordinates a vertex of the approximated border may have
GridCoords == {10 * k : k \in 0..MaxCoord}
GridPoints == GridCoords \X GridCoords

\* the photographs, by image.shape[:2] and by the edge of the photograph that
\* is the top row of the array: one landscape, one portrait, one square
ImageShapes ==
    {[height |-> 45, width |-> 60, top |-> "top"],
     [height |-> 50, width |-> 40, top |-> "top"],
     [height |-> 45, width |-> 45, top |-> "top"]}

\* what the border search finds: no contour at all, a largest contour that
\* approximates to 4 vertices, or one that does not (known by its bounding
\* rectangle)
Borders ==
    {[kind |-> "none"]}
    \cup {[kind |-> "quad", pts |-> pts] :
            pts \in {q \in [1..4 -> GridPoints] :
                        \A i, j \in 1..4 : i # j => q[i] # q[j]}}
    \cup {[kind |-> "other", x |-> x, y |-> y, w |-> w, h |-> h] :
            x \in GridCoords, y \in GridCoords, w \in {1, 15, 40}, h \in {1, 15, 40}}

\* int(np.sqrt(n))
isqrt(n) == CHOOSE r \in 0..n : r * r <= n /\ n < (r + 1) * (r + 1)

\* (a[0] - b[0]) ** 2 + (a[1] - b[1]) ** 2
Dist2(a, b) == (a[1] - b[1]) * (a[1] - b[1]) + (a[2] - b[2]) * (a[2] - b[2])

\* np.argmin / np.argmax: the first position holding the extreme value
argmin(v) ==
    CHOOSE i \in 1..Len(v) :
        /\ \A j \in 1..Len(v) : v[i] <= v[j]
        /\ \A j \in 1..(i - 1) : v[j] > v[i]
argmax(v) ==
    CHOOSE i \in 1..Len(v) :
        /\ \A j \in 1..Len(v) : v[i] >= v[j]
        /\ \A j \in 1..(i - 1) : v[j] < v[i]

\* image_croping.order_points: top-left, top-right, bottom-right, bottom-left
order_points(pts) ==
    LET sm == [k \in 1..4 |-> pts[k][1] + pts[k][2]]
        diff == [k \in 1..4 |-> pts[k][2] - pts[k][1]]
    IN <<pts[argmin(sm)], pts[argmin(diff)], pts[argmax(sm)], pts[argmax(diff)]>>

\* cv2.warpPerspective(src, M, dsize): the result has the size dsize, and the
\* size of src when dsize is empty
warpPerspective(src, dsize_width, dsize_height) ==
    IF dsize_width <= 0 \/ dsize_height <= 0 THEN src
    ELSE [height |-> dsize_height, width |-> dsize_width]

\* image_croping.four_point_transform: the shape of the warped image
four_point_transform(image, pts) ==
    LET rect == order_points(pts)
        tl == rect[1]
        tr == rect[2]
        br == rect[3]
        bl == rect[4]
        maxWidth == Max2(isqrt(Dist2(br, bl)), isqrt(Dist2(tr, tl)))
        maxHeight == Max2(isqrt(Dist2(tr, br)), isqrt(Dist2(tl, bl)))
    IN warpPerspective(image, maxWidth, maxHeight)

\* len(range(n)[start:stop]): a negative bound of a slice counts from the end
slice_len(start, stop, n) ==
    LET lo == IF start < 0 THEN Max2(0, n + start) ELSE Min2(start, n)
        hi == IF stop < 0 THEN Max2(0, n + stop) ELSE Min2(stop, n)
    IN Max2(0, hi - lo)

\* faulty variant: a square photograph is rotated too
rotate_if_landscape_le(image) ==
    IF image.height <= image.width
    THEN [height |-> image.width, width |-> image.height, top |-> "left"]
    ELSE image

\* lines 57-62: a landscape photograph is rotated by 90 degrees
rotate_if_landscape(image) ==
    IF image.height < image.width
    \* cv2.ROTATE_90_CLOCKWISE: the left edge becomes the top row
    THEN [height |-> image.width, width |-> image.height, top |-> "left"]
    ELSE image

\* faulty variant: the crop origin of the fallback is not clamped to 0
detect_and_crop_border_unclamped(image, border) ==
    CASE border.kind = "none" -> image
      [] border.kind = "quad" ->
            LET warped == four_point_transform(image, border.pts)
            IN [height |-> warped.height + 2 * border_padding,
                width |-> warped.width + 2 * border_padding]
      [] border.kind = "other" ->
            LET x == border.x - border_padding
                y == border.y - border_padding
                w == Min2(image.width - x, border.w + 2 * border_padding)
                h == Min2(image.height - y, border.h + 2 * border_padding)
            IN [height |-> slice_len(y, y + h, image.height),
                width |-> slice_len(x, x + w, image.width)]

\* image_croping.detect_and_crop_border, lines 76-146: the shape of the image
\* returned for the (rotated) image and the border found in it
detect_and_crop_border(image, border) ==
    CASE border.kind = "none" -> image
      [] border.kind = "quad" ->
            LET warped == four_point_transform(image, border.pts)
            IN [height |-> warped.height + 2 * border_padding,
                width |-> warped.width + 2 * border_padding]
      [] border.kind = "other" ->
            LET x == Max2(0, border.x - border_padding)
                y == Max2(0, border.y - border_padding)
                w == Min2(image.width - x, border.w + 2 * border_padding)
                h == Min2(image.height - y, border.h + 2 * border_padding)
            IN [height |-> slice_len(y, y + h, image.height),
                width |-> slice_len(x, x + w, image.width)]

\* an OpenCV filter applied to an image without pixels raises cv2.error
IsEmptyImage(image) == image.height = 0 \/ image.width = 0

\* the photographs: unreadable, or readable with a border that lies inside
\* the image as detect_and_crop_border sees it
NormInputs ==
    {None}
    \cup {Some(in) : in \in
            {i \in [shape : ImageShapes, border : Borders] :
                i.border.kind = "other" =>
                    /\ i.border.x + i.border.w <= rotate_if_landscape(i.shape).width
                    /\ i.border.y + i.border.h <= rotate_if_landscape(i.shape).height}}

NormInit ==
    /\ n_pc = "read"
    /\ n_input \in NormInputs
    /\ n_image = None
    /\ n_result = None
    /\ DetOff
    /\ RunOff
    /\ FillOff
    /\ AuxOff

\* lines 53-62: cv2.imread; ValueError when it returns None, which
\* process_images catches (lines 187-189) and turns into None
NormRead ==
    /\ n_pc = "read"
    /\ IF IsNone(n_input)
       THEN /\ n_result' = None
            /\ n_pc' = "done"
            /\ UNCHANGED n_image
       ELSE /\ n_image' = Some(rotate_if_landscape(Val(n_input).shape))
            /\ n_pc' = "border"
            /\ UNCHANGED n_result
    /\ UNCHANGED <<n_input, det_vars, in_vars, run_vars, fill_vars,
                   aux_vars>>

\* lines 64-146: the border search and the crop
NormCrop ==
    /\ n_pc = "border"
    /\ n_image' = Some(detect_and_crop_border(Val(n_image), Val(n_input).border))
    /\ n_pc' = "enhance"
    /\ UNCHANGED <<n_input, n_result, det_vars, in_vars, run_vars, fill_vars,
                   aux_vars>>

\* lines 157-180: grayscale, denoising, CLAHE, sharpening; any cv2.error is
\* caught by process_images and turned into None
NormEnhance ==
    /\ n_pc = "enhance"
    /\ IF IsEmptyImage(Val(n_image))
       THEN /\ n_result' = None
            /\ n_pc' = "done"
       ELSE /\ n_pc' = "resize"
            /\ UNCHANGED n_result
    /\ UNCHANGED <<n_input, n_image, det_vars, in_vars, run_vars, fill_vars,
                   aux_vars>>

\* lines 183-186: cv2.resize to the standard size
NormResize ==
    /\ n_pc = "resize"
    /\ n_image' = Some([height |-> standard_height, width |-> standard_width])
    /\ n_result' = Some([width |-> standard_width, height |-> standard_height])
    /\ n_pc' = "done"
    /\ UNCHANGED <<n_input, det_vars, in_vars, run_vars, fill_vars,
                   aux_vars>>

NormNext == NormRead \/ NormCrop \/ NormEnhance \/ NormResize

NormSpec == NormInit /\ [][NormNext]_vars

(***************************************************************************)
(* The fill measurement of find_bubbles (lines 76-81) on one contour,      *)
(* pixel by pixel                                                          *)
(***************************************************************************)
MaxMaskPx == 3

\* intensities of the enhanced image: black, just below the dark threshold,
\* on it, white
PixelValues == {0, dark_threshold - 1, dark_threshold, 255}

\* the masks: every list of at most MaxMaskPx pixels
Masks == UNION {[1..n -> PixelValues] : n \in 0..MaxMaskPx}

\* the contour whose filled mask covers exactly the given pixels
MaskedContour(pixels) ==
    Cnt(2 * min_area + 1, 880, 80, 40, 40, 100, [k \in 1..Len(pixels) |-> <<pixels[k], 1>>])

FillInit ==
    /\ f_pc = "masked"
    /\ f_pixels \in Masks
    /\ f_ratio = None
    /\ DetOff
    /\ RunOff
    /\ NormOff
    /\ AuxOff

\* lines 76-81: the mask is drawn and the fill ratio computed
FillMeasure ==
    /\ f_pc = "masked"
    /\ f_ratio' = Some(fill_ratio(MaskedContour(f_pixels)))
    /\ f_pc' = "measured"
    /\ UNCHANGED <<f_pixels, det_vars, in_vars, run_vars, norm_vars,
                   aux_vars>>

\* the same contour on an image in which one more masked pixel is below the
\* dark threshold, measured again
FillDarken ==
    /\ f_pc = "measured"
    /\ \E k \in 1..Len(f_pixels), v \in PixelValues :
          /\ f_pixels[k] >= dark_threshold
          /\ v < dark_threshold
          /\ f_pixels' = [f_pixels EXCEPT ![k] = v]
    /\ f_ratio' = Some(fill_ratio(MaskedContour(f_pixels')))
    /\ UNCHANGED <<f_pc, det_vars, in_vars, run_vars, norm_vars,
                   aux_vars>>

FillNext == FillMeasure \/ FillDarken

FillSpec == FillInit /\ [][FillNext]_vars

(***************************************************************************)
(* divide_image_into_questions on one section image of any height, crop by *)
(* crop (divide_questions.py)                                              *)
(***************************************************************************)
MaxSectionHeight == 47

\* the heights of the section images: the small ones, and the height of the
\* bands of the standard canvas
SectionHeights == (0..MaxSectionHeight) \cup {standard_height - 2 * TrimMargin}

\* img[start_y:end_y, :] has no pixel
IsEmptyCrop(crop) == crop.end_y <= crop.start_y

DivInit ==
    /\ q_pc = "cut"
    /\ q_height \in SectionHeights
    /\ q_crops = <<>>
    /\ DetOff
    /\ RunOff
    /\ NormOff
    /\ FillOff
    /\ ThirdsOff
    /\ CombOff

\* lines 76-86: one iteration of the loop; cv2.imwrite raises cv2.error for a
\* crop without pixels
DivCrop ==
    /\ q_pc = "cut"
    /\ LET crop == divide_rows(q_height)[Len(q_crops) + 1]
       IN IF IsEmptyCrop(crop)
          THEN /\ q_pc' = "raised"
               /\ UNCHANGED q_crops
          ELSE /\ q_crops' = Append(q_crops, crop)
               /\ q_pc' = IF Len(q_crops') = num_questions THEN "done" ELSE "cut"
    /\ UNCHANGED <<q_height, det_vars, in_vars, run_vars, norm_vars, fill_vars, thirds_vars, comb_vars>>

DivNext == DivCrop

DivSpec == DivInit /\ [][DivNext]_vars

(***************************************************************************)
(* crop_into_thirds on one image of any size (image_processing.py)         *)
(***************************************************************************)
MaxCanvasWidth == 7
MaxTrimSlack == 2

\* the image sizes: narrow ones and the standard width; heights around twice
\* the margin, no height at all, one margin, and the standard height
CanvasWidths == (0..MaxCanvasWidth) \cup {standard_width}
CanvasHeights ==
    ((2 * TrimMargin - MaxTrimSlack)..(2 * TrimMargin + MaxTrimSlack))
    \cup {0, TrimMargin, standard_height}

ThirdsInit ==
    /\ t_pc = "call"
    /\ t_image \in {Some(i) : i \in [width : CanvasWidths, height : CanvasHeights]}
    /\ t_parts = None
    /\ DetOff
    /\ RunOff
    /\ NormOff
    /\ FillOff
    /\ DivOff
    /\ CombOff

\* lines 30-45
ThirdsCrop ==
    /\ t_pc = "call"
    /\ t_parts' = Some(crop_into_thirds(Val(t_image)))
    /\ t_pc' = "returned"
    /\ UNCHANGED <<t_image, det_vars, in_vars, run_vars, norm_vars, fill_vars, div_vars, comb_vars>>

ThirdsNext == ThirdsCrop

ThirdsSpec == ThirdsInit /\ [][ThirdsNext]_vars

(***************************************************************************)
(* combine_images called again and again on one output directory           *)
(* (combine_images.py)                                                     *)
(***************************************************************************)
MaxTicks == 6

\* int(time.time()) at the first call: a ten-digit number of seconds, as every
\* time stamp between 2001 and 2286
ClockStart == 1700000000

grid_width == 3
grid_height == 15
\* old_files[:-5]
keep_files == 5

\* 'combined_questions'
STR_combined_questions == <<99, 111, 109, 98, 105, 110, 101, 100, 95, 113, 117, 101, 115, 116, 105, 111, 110, 115>>
\* 'combined_questions_'
STR_combined_prefix == STR_combined_questions \o <<95>>
\* 'combined_questions.jpg'
standard_name == STR_combined_questions \o STR_jpg
\* f'combined_questions_{timestamp}.jpg'
combined_name(timestamp) == STR_combined_prefix \o str(timestamp) \o STR_jpg

RECURSIVE split(_, _)
\* s.split(sep) for a separator of one character
split(s, sep) ==
    IF \A k \in 1..Len(s) : s[k] # sep THEN <<s>>
    ELSE LET k == CHOOSE k \in 1..Len(s) :
                      s[k] = sep /\ \A j \in 1..(k - 1) : s[j] # sep
         IN <<SubSeq(s, 1, k - 1)>> \o split(SubSeq(s, k + 1, Len(s)), sep)

\* line 29, None where lines 31-33 catch IndexError or ValueError (int raises
\* ValueError for a piece that is not a run of digits)
question_number(img_file) ==
    LET parts == split(img_file, 95)
    IN IF Len(parts) < 2 THEN None
       ELSE LET piece == split(parts[2], 46)[1]
                digits == piece # <<>> /\ \A k \in 1..Len(piece) : piece[k] \in 48..57
            IN IF digits THEN Some(int(piece)) ELSE None

\* line 18
image_files(listing) ==
    {f \in listing : startswith(f, STR_question) /\ endswith(f, STR_jpg)}

\* lines 26-33: question number -> file name (the listings hold one file per
\* number)
question_map(files) ==
    LET items == {it \in {[num |-> question_number(f), file |-> f] : f \in files} :
                    ~IsNone(it.num)}
    IN [num \in {Val(it.num) : it \in items} |->
           (CHOOSE it \in items : it.num = Some(num)).file]

\* lines 60, 67, 74: the question pasted at row 0 of a column
first_question(col) == IF col = 0 THEN 31 ELSE IF col = 1 THEN 16 ELSE 1

\* lines 54-78: the grid of pasted files, <<>> where the cell stays black
combined_image(qmap) ==
    [row \in 0..(grid_height - 1) |->
        [col \in 0..(grid_width - 1) |->
            IF row + first_question(col) \in DOMAIN qmap
            THEN qmap[row + first_question(col)]
            ELSE <<>>]]

\* a file written into a directory replaces the file of that name
write_file(dir, name, image) ==
    {f \in dir : f.name # name} \cup {[name |-> name, image |-> image]}

files_to_remove_newest(old_files) == SubSeq(old_files, keep_files + 1, Len(old_files))

\* old_files[:-5]
files_to_remove(old_files) == SubSeq(old_files, 1, Len(old_files) - keep_files)

\* lines 7-118 for one listing of output/results (None: no such directory),
\* the files of output_dir and the value of int(time.time())
combine_images(results, out, timestamp) ==
    LET failed == [ok |-> FALSE, out |-> out, image |-> None]
    IN IF IsNone(results) THEN failed
       ELSE IF image_files(Val(results)) = {} THEN failed
       ELSE LET qmap == question_map(image_files(Val(results)))
            IN IF DOMAIN qmap = {} THEN failed
               ELSE LET image == combined_image(qmap)
                        saved == write_file(out, combined_name(timestamp), image)
                        source == CHOOSE f \in saved : f.name = combined_name(timestamp)
                        copied == write_file({f \in saved : f.name # standard_name},
                                             standard_name, source.image)
                        old_files == sorted({f.name : f \in
                                        {g \in copied :
                                            /\ startswith(g.name, STR_combined_prefix)
                                            /\ endswith(g.name, STR_jpg)}})
                        doomed == files_to_remove(old_files)
                        gone == {doomed[k] : k \in 1..Len(doomed)}
                    IN [ok |-> TRUE,
                        out |-> {f \in copied : f.name \notin gone},
                        image |-> Some(image)]

\* the listings of output/results: no directory, reports only, a file whose
\* number does not parse, the first and last question of every section, and
\* some questions with a 46th
\* (the scanner leaves its two reports next to the question images)
ResultDirs ==
    LET reports == {STR_detailed_results, STR_summary}
    IN {None,
        Some(reports),
        Some(reports \cup {STR_question \o STR_jpg}),
        Some(reports \cup {question_file_name(n) : n \in {1, 15, 16, 30, 31, 45}}),
        Some(reports \cup {question_file_name(n) : n \in {2, 17, 32, 46}})}

CombInit ==
    /\ CombOff
    /\ DetOff
    /\ RunOff
    /\ NormOff
    /\ FillOff
    /\ DivOff
    /\ ThirdsOff

\* one call of combine_images
Combine ==
    \E rs \in ResultDirs :
        LET r == combine_images(rs, c_out, ClockStart + c_clock)
        IN /\ c_results' = rs
           /\ c_out' = r.out
           /\ c_ret' = Some(r.ok)
           /\ c_last' = IF r.ok THEN r.image ELSE c_last
           /\ c_written' = IF r.ok THEN c_written \cup {ClockStart + c_clock}
                           ELSE c_written
           /\ UNCHANGED <<c_clock, det_vars, in_vars, run_vars, norm_vars,
                          fill_vars, div_vars, thirds_vars>>

\* a second passes between two calls
Tick ==
    /\ c_clock < MaxTicks
    /\ c_clock' = c_clock + 1
    /\ UNCHANGED <<c_results, c_out, c_written, c_last, c_ret, det_vars, in_vars,
                   run_vars, norm_vars, fill_vars, div_vars, thirds_vars>>

CombNext == Combine \/ Tick

CombSpec == CombInit /\ [][CombNext]_vars

(***************************************************************************)
(* Properties of the detector (checked under DetSpec)                      *)
(***************************************************************************)
\* the acceptance rule as the design states it, on the measured values
Accepts(cnt) ==
    /\ 2 * min_area < cnt.area2
    /\ cnt.area2 < 2 * max_area
    /\ cnt.circ > min_circularity
    /\ 10 * aspect_ratio(cnt)[1] < max_aspect_ratio * aspect_ratio(cnt)[2]

AcceptedIdx == {i \in 1..Len(contours) : Accepts(contours[i])}
RetainedIdx == {bubbles[k].contour : k \in 1..Len(bubbles)}

\* C3: a position is marked iff its fill ratio is strictly above the
\* threshold (a ratio equal to it is not marked); analyze_selections returns
\* exactly the qualifying positions, highest fill ratio first.
C3_MarkedIffAboveThreshold ==
    d_pc = "done" =>
        /\ \A p \in 0..(Len(bubbles) - 1) :
              (\E k \in 1..Len(selected) : selected[k] = p)
              <=> 100 * bubbles[p + 1].fill_ratio[1]
                    > fill_ratio_threshold * bubbles[p + 1].fill_ratio[2]
        /\ \A k \in 1..Len(selected) : selected[k] \in 0..(Len(bubbles) - 1)
        /\ \A k \in 1..(Len(selected) - 1) :
              bubbles[selected[k] + 1].fill_ratio[1] * bubbles[selected[k + 1] + 1].fill_ratio[2]
              >= bubbles[selected[k + 1] + 1].fill_ratio[1] * bubbles[selected[k] + 1].fill_ratio[2]

\* a row with a retained candidate exactly on the threshold and two marked
\* positions that the descending order swaps
C3_Witness ==
    /\ d_pc = "done"
    /\ \E p \in 1..Len(bubbles) :
          100 * bubbles[p].fill_ratio[1] = fill_ratio_threshold * bubbles[p].fill_ratio[2]
    /\ Len(selected) >= 2
    /\ selected[1] > selected[2]

\* C4: a contour is accepted iff minArea < area < maxArea, circularity >
\* threshold and aspect ratio < threshold (all strict), so no contour with
\* circularity <= threshold or aspect ratio >= threshold is ever among the
\* at most 4 retained candidates.
C4_FilterSound ==
    /\ d_pc = "loop" =>
          \A i \in 1..Len(contours) :
              (\E k \in 1..Len(bubbles) : bubbles[k].contour = i) <=> Accepts(contours[i])
    /\ \A k \in 1..Len(bubbles) :
          LET c == contours[bubbles[k].contour]
          IN /\ ~(c.circ <= min_circularity)
             /\ ~(10 * aspect_ratio(c)[1] >= max_aspect_ratio * aspect_ratio(c)[2])
    /\ d_pc = "done" => Len(bubbles) <= 4

\* candidates retained from a row that also held a contour exactly on the
\* circularity threshold and one exactly on the aspect-ratio threshold
C4_Witness ==
    /\ d_pc = "done"
    /\ Len(bubbles) = 3
    /\ \E i \in 1..Len(contours) : contours[i].circ = min_circularity
    /\ \E i \in 1..Len(contours) :
          10 * aspect_ratio(contours[i])[1] = max_aspect_ratio * aspect_ratio(contours[i])[2]

NoFault ==
    /\ write_fail = {} /\ read_fail = {} /\ detect_fail = {}
    /\ dirs_missing = {}

\* the row a global question number stands for
RowOfNumber(n) ==
    IF n <= 15 THEN <<"right", n>>
    ELSE IF n <= 30 THEN <<"middle", n - 15>>
    ELSE <<"left", n - 30>>

NumberOfRow(r) ==
    CASE r[1] = "right" -> r[2]
      [] r[1] = "middle" -> r[2] + 15
      [] r[1] = "left" -> r[2] + 30

\* the keys and the decisions of the returned map
ResultKeys == {Val(returned)[k].key : k \in 1..Len(Val(returned))}
HasEntry(n) == \E k \in 1..Len(Val(returned)) : Val(returned)[k].key = question_key(n)
EntryOf(n) ==
    Val(returned)[CHOOSE k \in 1..Len(Val(returned)) :
                     Val(returned)[k].key = question_key(n)].value

\* the decisions of the returned map, each with its question number
Decisions ==
    IF pc # "done" \/ IsNone(returned) THEN {}
    ELSE {[number |-> int(replace(Val(returned)[k].key, STR_question)),
           answer |-> Val(returned)[k].value.answer,
           fill_ratios |-> Val(returned)[k].value.fill_ratios,
           bubbles_detected |-> Val(returned)[k].value.bubbles_detected] :
             k \in 1..Len(Val(returned))}

\* the accepted contours of the row image of a question
AcceptedInRow(n) ==
    LET scene == RowScenes[sheet[RowOfNumber(n)]]
    IN {i \in 1..Len(scene) : Accepts(scene[i])}

\* C1: with a readable image and all 3 x 15 row images read back, the result
\* holds every global question number 1..45 exactly once, under the keys
\* question_1 .. question_45.
C1_AllQuestionsOnce ==
    (pc = "done" /\ image_readable /\ NoFault) =>
        /\ ~IsNone(returned)
        /\ Len(Val(returned)) = 45
        /\ ResultKeys = {question_key(n) : n \in 1..45}
        /\ Len(all_answers) = 45
        /\ {all_answers[k].question_number : k \in 1..Len(all_answers)} = 1..45

\* a finished run without any fault, on a sheet with one blank row
C1_Witness ==
    /\ pc = "done" /\ image_readable /\ NoFault
    /\ ~IsNone(returned)
    /\ \E r \in Rows : sheet[r] = 1

\* C2: the mapper returns local for right, local+15 for middle, local+30 for
\* left; over the three sections and local 1..15 it is a bijection onto 1..45
\* (middle/7 -> 22, left/1 -> 31, right/15 -> 15); the three implementations
\* agree on every (section, local) pair.
C2_NumberingAgrees ==
    /\ \A r \in Rows :
          /\ get_section_question_number(r[1], r[2]) = NumberOfRow(r)
          /\ get_adjusted_question_number(r[1], r[2]) = NumberOfRow(r)
          /\ get_section_question_number_bd(r[1], r[2]) = NumberOfRow(r)
    /\ {get_section_question_number(r[1], r[2]) : r \in Rows} = 1..45
    /\ Cardinality(Rows) = 45
    /\ get_section_question_number("middle", 7) = 22
    /\ get_section_question_number("left", 1) = 31
    /\ get_section_question_number("right", 15) = 15
    /\ pc = "rows" =>
          LET section_name == SectionOrder[sec_i]
              local == int(replace(replace(question_files[file_i], STR_question), STR_jpg))
          IN /\ local \in 1..15
             /\ get_adjusted_question_number(section_name, local)
                  = get_section_question_number(section_name, local)
             /\ get_section_question_number_bd(section_name, local)
                  = get_section_question_number(section_name, local)
    /\ \A k \in 1..Len(all_answers) : all_answers[k].question_number \in 1..45

\* the scanner is about to number row 7 of the middle section, and has
\* numbered rows of the right section before
C2_Witness ==
    /\ pc = "rows"
    /\ SectionOrder[sec_i] = "middle"
    /\ question_files[file_i] = question_file_name(7)
    /\ \E k \in 1..Len(all_answers) : all_answers[k].question_number = 15

C7_DecisionWellFormed ==
    \A d \in Decisions :
        /\ d.bubbles_detected \in 0..4
        /\ Len(d.fill_ratios) = d.bubbles_detected
        /\ ~IsNone(d.answer) =>
              LET marked == Val(d.answer)
              IN /\ \A k \in 1..Len(marked) :
                       marked[k] \in 0..3 /\ marked[k] < d.bubbles_detected
                 /\ \A j, k \in 1..Len(marked) : j # k => marked[j] # marked[k]

\* a returned decision with several marked positions for a row in which more
\* than 4 contours were accepted
C7_Witness ==
    /\ pc = "done" /\ ~IsNone(returned)
    /\ \E d \in Decisions :
          /\ HasEntry(d.number)
          /\ Cardinality(AcceptedInRow(d.number)) > 4
          /\ d.bubbles_detected = 4
          /\ ~IsNone(d.answer)
          /\ Len(Val(d.answer)) >= 2

\* C8: a row image that is missing or unreadable, or a section whose
\* questions directory is missing, leaves no entry for its global question
\* number in the returned map; a row that is present with zero candidates
\* does have an entry, with bubbles_detected = 0.
C8_MissingRowOmitted ==
    (pc = "done" /\ ~IsNone(returned)) =>
        \A r \in Rows :
            /\ (r \in write_fail \cup read_fail \cup detect_fail \/ r[1] \in dirs_missing)
                  => ~HasEntry(NumberOfRow(r))
            /\ (r \notin write_fail \cup read_fail \cup detect_fail
                /\ r[1] \notin dirs_missing
                /\ AcceptedInRow(NumberOfRow(r)) = {})
                  => /\ HasEntry(NumberOfRow(r))
                     /\ EntryOf(NumberOfRow(r)).bubbles_detected = 0

\* a finished run in which one row image could not be read
C8_Witness ==
    /\ pc = "done" /\ ~IsNone(returned)
    /\ read_fail # {}
    /\ Len(Val(returned)) = 44

\* C9: an unreadable input image makes process_bubble_sheet return None
\* without processing any section or row; a readable sheet returns a map,
\* even when no question was decoded.
C9_UnreadableReturnsNone ==
    /\ ~image_readable =>
          /\ pc \in {"start", "done"}
          /\ IsNone(returned)
          /\ IsNone(sections)
          /\ all_answers = <<>>
          /\ question_files = <<>>
          /\ \A s \in Sections : row_crops[s] = <<>>
    /\ (pc = "done" /\ ~IsNone(cropped_image)) => ~IsNone(returned)
    /\ (pc = "done" /\ ~IsNone(cropped_image) /\ all_answers = <<>>) =>
          /\ returned = Some(<<>>)
          /\ returned # None

\* the run on an unreadable image has ended
C9_Witness ==
    /\ pc = "done"
    /\ ~image_readable
    /\ IsNone(cropped_image)

\* C10: partitioning a rectified canvas yields exactly 3 sections and 15 row
\* crops per section (45 in total), and two adjacent row crops of a section
\* share exactly 2 * overlap = 10 pixel rows.
C10_PartitionShape ==
    /\ ~IsNone(sections) =>
          /\ DOMAIN Val(sections) = Sections
          /\ Cardinality(DOMAIN Val(sections)) = 3
    /\ \A s \in Sections :
          row_crops[s] # <<>> =>
              /\ Len(row_crops[s]) = 15
              /\ \A i \in 1..14 :
                    /\ row_crops[s][i].end_y - row_crops[s][i + 1].start_y = 2 * overlap
                    /\ row_crops[s][i].end_y - row_crops[s][i + 1].start_y = 10
    /\ (pc = "done" /\ ~IsNone(cropped_image)) =>
          /\ \A s \in Sections : Len(row_crops[s]) = 15
          /\ Len(row_crops["left"]) + Len(row_crops["middle"]) + Len(row_crops["right"]) = 45

\* all three sections of a canvas have been divided
C10_Witness ==
    /\ pc = "done"
    /\ ~IsNone(cropped_image)
    /\ \A s \in Sections : Len(row_crops[s]) = 15

\* the marked positions of a stored decision, as a set
MarkedOf(entry) ==
    IF IsNone(entry.answer) THEN {}
    ELSE {Val(entry.answer)[k] : k \in 1..Len(Val(entry.answer))}

Faulted(r) ==
    r \in write_fail \cup read_fail \cup detect_fail \/ r[1] \in dirs_missing

\* C11: a row with fewer than 4 accepted candidates still produces a
\* decision: it is stored under its question number with bubbles_detected
\* equal to the short count, the fill ratios are those of the candidates
\* present, and the marked positions are exactly the present positions whose
\* fill ratio is above the threshold; the run ends normally.
C11_ShortRowDecided ==
    (pc = "done" /\ ~IsNone(returned)) =>
        \A r \in Rows :
            LET n == NumberOfRow(r)
                scene == RowScenes[sheet[r]]
                acc == AcceptedInRow(n)
            IN (~Faulted(r) /\ Cardinality(acc) < 4) =>
                  /\ HasEntry(n)
                  /\ EntryOf(n).bubbles_detected = Cardinality(acc)
                  /\ Len(EntryOf(n).fill_ratios) = Cardinality(acc)
                  /\ {EntryOf(n).fill_ratios[k] : k \in 1..Len(EntryOf(n).fill_ratios)}
                        = {fill_ratio(scene[i]) : i \in acc}
                  /\ MarkedOf(EntryOf(n))
                        = {p \in 0..(Cardinality(acc) - 1) :
                              100 * EntryOf(n).fill_ratios[p + 1][1]
                                > fill_ratio_threshold * EntryOf(n).fill_ratios[p + 1][2]}

\* a finished run whose sheet has a row with 2 accepted candidates, both of
\* them marked, stored with bubbles_detected = 2
C11_Witness ==
    /\ pc = "done" /\ ~IsNone(returned)
    /\ \E r \in Rows :
          /\ ~Faulted(r)
          /\ Cardinality(AcceptedInRow(NumberOfRow(r))) = 2
          /\ HasEntry(NumberOfRow(r))
          /\ EntryOf(NumberOfRow(r)).bubbles_detected = 2
          /\ Cardinality(MarkedOf(EntryOf(NumberOfRow(r)))) = 2

\* C12: for a row image in which no contour is accepted (blank, or showing
\* only shapes the filter rejects) the decision has zero candidates:
\* bubbles_detected = 0, no fill ratio and no marked position (the detector
\* selects [], which the result stores as answer None).
C12_BlankRowEmptyDecision ==
    (pc = "done" /\ ~IsNone(returned)) =>
        \A r \in Rows :
            LET n == NumberOfRow(r)
                found == find_bubbles(RowScenes[sheet[r]]).bubbles
            IN (~Faulted(r) /\ AcceptedInRow(n) = {}) =>
                  /\ found = <<>>
                  /\ analyze_selections(found) = <<>>
                  /\ HasEntry(n)
                  /\ EntryOf(n).bubbles_detected = 0
                  /\ EntryOf(n).fill_ratios = <<>>
                  /\ IsNone(EntryOf(n).answer)
                  /\ MarkedOf(EntryOf(n)) = {}

\* a finished run whose sheet has a row showing contours of which none is
\* accepted, stored as an empty decision
C12_Witness ==
    /\ pc = "done" /\ ~IsNone(returned)
    /\ \E r \in Rows :
          /\ ~Faulted(r)
          /\ RowScenes[sheet[r]] # <<>>
          /\ AcceptedInRow(NumberOfRow(r)) = {}
          /\ HasEntry(NumberOfRow(r))
          /\ IsNone(EntryOf(NumberOfRow(r)).answer)

\* C13: the entries of the returned map, and the decisions the summary
\* report iterates over, are in strictly ascending global question number,
\* although the sections are processed right, middle, left and each listing
\* is sorted as strings (question_10 before question_2).
C13_AscendingOrder ==
    /\ (pc = "done" /\ ~IsNone(returned)) =>
          /\ Len(Val(returned)) = Len(all_answers)
          /\ \A k \in 1..Len(all_answers) :
                Val(returned)[k].key = question_key(all_answers[k].question_number)
          /\ \A k \in 1..(Len(all_answers) - 1) :
                all_answers[k].question_number < all_answers[k + 1].question_number
          /\ \A k \in 1..(Len(Val(returned)) - 1) :
                int(replace(Val(returned)[k].key, STR_question))
                  < int(replace(Val(returned)[k + 1].key, STR_question))
    /\ (pc = "rows" /\ file_i = 1) =>
          /\ \A k \in 1..(Len(question_files) - 1) :
                StrLess(question_files[k], question_files[k + 1])
          /\ \A i, j \in 1..Len(question_files) :
                (question_files[i] = question_file_name(10)
                 /\ question_files[j] = question_file_name(2)) => i < j

\* a finished run with all 45 entries whose last listing had question_10 in
\* second place and question_2 in eighth
C13_Witness ==
    /\ pc = "done" /\ ~IsNone(returned)
    /\ Len(Val(returned)) = 45
    /\ Len(question_files) = 15
    /\ question_files[2] = question_file_name(10)
    /\ question_files[8] = question_file_name(2)

\* C14: for every readable photograph, whichever path the border search
\* takes (no contour, 4-vertex perspective warp, bounding-rectangle
\* fallback), the image handed from step to step has pixels, process_images
\* returns a canvas and not None, and the canvas is 800 x 600.
C14_ReadableAlwaysCanvas ==
    /\ (n_pc \in {"border", "enhance", "resize"}) =>
          /\ ~IsNone(n_image)
          /\ Val(n_image).height > 0
          /\ Val(n_image).width > 0
    /\ (n_pc = "done" /\ ~IsNone(n_input)) =>
          /\ ~IsNone(n_result)
          /\ Val(n_result).width = 800
          /\ Val(n_result).height = 600
          /\ Val(n_result) = process_images(TRUE)[1]

\* a canvas was returned for a photograph whose border approximated to a
\* quadrilateral standing on a vertex, for which the computed warp width is 0
C14_Witness ==
    /\ n_pc = "done"
    /\ ~IsNone(n_input)
    /\ Val(n_input).border.kind = "quad"
    /\ LET rect == order_points(Val(n_input).border.pts)
       IN rect[1] = rect[2] /\ rect[3] = rect[4]
    /\ ~IsNone(n_result)

\* the masked pixels below the dark threshold
DarkPixels == {k \in 1..Len(f_pixels) : f_pixels[k] < dark_threshold}

\* C15: the fill ratio equals dark pixel count / mask pixel count, and 0 for
\* an empty mask; it is 0 when no masked pixel is below the dark threshold,
\* 1 when every masked pixel is, always within [0, 1], and it does not
\* decrease when one more pixel of the same mask becomes dark.
C15_FillRatio ==
    /\ [](f_pc = "measured" =>
            LET r == Val(f_ratio)
            IN /\ r[2] > 0
               /\ 0 <= r[1] /\ r[1] <= r[2]
               /\ Len(f_pixels) = 0 => r[1] = 0
               /\ Len(f_pixels) > 0 =>
                     r[1] * Len(f_pixels) = Cardinality(DarkPixels) * r[2]
               /\ DarkPixels = {} => r[1] = 0
               /\ (Len(f_pixels) > 0 /\ DarkPixels = 1..Len(f_pixels)) => r[1] = r[2])
    /\ [][(f_pc = "measured" /\ f_pc' = "measured") =>
            Val(f_ratio')[1] * Val(f_ratio)[2] >= Val(f_ratio)[1] * Val(f_ratio')[2]]_vars

\* a measured mask holding a pixel below the threshold, one exactly on it and
\* a white one
C15_Witness ==
    /\ f_pc = "measured"
    /\ Cardinality(DarkPixels) = 1
    /\ \E k \in 1..Len(f_pixels) : f_pixels[k] = dark_threshold
    /\ \E k \in 1..Len(f_pixels) : f_pixels[k] = 255
    /\ Val(f_ratio)[1] * 3 = Val(f_ratio)[2]

C17_StableSort ==
    d_pc = "done" =>
        /\ \A k \in 1..(Len(bubbles) - 1) :
              bubbles[k].center = bubbles[k + 1].center
                => bubbles[k].contour < bubbles[k + 1].contour
        /\ \A i \in AcceptedIdx \ RetainedIdx :
              \A k \in 1..Len(bubbles) :
                  bubbles[k].center = contours[i].cx => bubbles[k].contour < i
        /\ bubbles = find_bubbles(contours).bubbles

\* five accepted contours at the same x, of two kinds: the cut to 4 falls
\* inside a group of equal keys
C17_Witness ==
    /\ d_pc = "done"
    /\ Cardinality(AcceptedIdx) = 5
    /\ \A i \in 1..Len(contours) : contours[i].cx = contours[1].cx
    /\ contours[1] # contours[2]
    /\ contours[4] # contours[5]

\* the decision of a row computed from that row alone
IsolatedDecision(r) ==
    LET n == NumberOfRow(r)
        found == find_bubbles(RowScenes[sheet[r]]).bubbles
        q == question_result(n, lookup_model_answer(n), found, analyze_selections(found))
    IN [answer |-> q.answer, fill_ratios |-> q.fill_ratios,
        bubbles_detected |-> q.bubbles_detected, model_answer |-> q.model_answer]

WriteIdx == {k \in 1..Len(io_log) : io_log[k].op = "write"}

RightToLeft(xs) == \A i, j \in 1..Len(xs) : i < j => xs[i] >= xs[j]

\* C19: every code path that reports or consumes a position index uses the
\* same convention, index 0 = rightmost mark: the detector's list, the box
\* drawn for the model answer, the list of evaluate_questions.py and the
\* positions reported by evaluate_questions_bubble_detection.py.
C19_PositionConventionUniform ==
    (d_pc = "evaluated" /\ ~IsNone(alt_result)) =>
        LET r == Val(alt_result)
        IN /\ RightToLeft([k \in 1..Len(bubbles) |-> bubbles[k].center])
           /\ \A k \in 1..Len(bubbles) : r.vis[k].box <=> (k - 1 = r.model_answer)
           /\ RightToLeft([k \in 1..Len(r.eq.bubbles) |-> r.eq.bubbles[k].x])
           /\ selected # <<>> => r.bd.selected_bubbles = selected

\* the positions the scanner's decision for question n marks, in its order
DecisionOf(n) ==
    IF IsNone(EntryOf(n).answer) THEN <<>> ELSE Val(EntryOf(n).answer)

GradeValue(r, n) ==
    r.student_answers[CHOOSE k \in 1..Len(r.student_answers) :
                         r.student_answers[k].key = str(n)].value

\* C20: in the answers of /evaluate and /grade a question is counted correct
\* if and only if the scanner's decision for it has exactly one marked
\* position and that position equals the model answer; a decision with more
\* than one marked position is reported as a multiple answer and not counted
\* correct, a decision with none as no answer.
C20_CorrectIffSingleMatch ==
    (/\ pc = "done" /\ ~IsNone(http) /\ ~IsNone(returned)
     /\ Val(http).status_code = 200
     /\ Val(http).endpoint \in {"evaluate", "grade"}) =>
        LET r == Val(http)
            answers == Val(model_answers)
            Asked == {n \in 1..Len(answers) : HasEntry(n)}
            Right(n) == Len(DecisionOf(n)) = 1 /\ DecisionOf(n)[1] = answers[n]
        IN IF r.endpoint = "evaluate"
           THEN /\ \A n \in Asked :
                     LET e == r.evaluation_results[n]
                     IN /\ e.is_correct <=> Right(n)
                        /\ Len(DecisionOf(n)) > 1 =>
                              /\ e.has_multiple_answers
                              /\ e.student_answer_display.kind = "Multiple"
                        /\ Len(DecisionOf(n)) = 0 => e.student_answer_display.kind = "No Answer"
                /\ r.correct_answers = Cardinality({n \in Asked : Right(n)})
           ELSE /\ \A n \in Asked :
                     /\ Len(DecisionOf(n)) > 1 <=>
                           \E k \in 1..Len(r.multi_answer_questions) :
                              r.multi_answer_questions[k] = n
                     /\ Len(DecisionOf(n)) = 0 <=> GradeValue(r, n).kind = "None"
                /\ r.correct_answers = Cardinality({n \in Asked : Right(n)})

\* the number of candidates the detector accepted in the row of question n
CandidateCount(n) ==
    Len(find_loop(RowScenes[sheet[RowOfNumber(n)]], 1,
                  [bubbles |-> <<>>, rejected |-> <<>>]).bubbles)

\* C21: a detection failure is always surfaced: when some question of the
\* result has a candidate count other than 4, more than 4 included,
\* /upload, /evaluate and /grade answer with an HTTP 400 error.
C21_DetectionFailureSurfaced ==
    (pc = "done" /\ ~IsNone(http) /\ ~IsNone(returned)) =>
        ((\E n \in 1..(3 * num_questions) : HasEntry(n) /\ CandidateCount(n) # 4)
            => Val(http).status_code = 400)

\* C22: for every section height H and row index i in 0..14, with rowHeight =
\* H div 15, the crop of row i is exactly the pixel rows from
\* max(0, i*rowHeight - 5) up to min(H, (i+1)*rowHeight + 5); it lies within
\* the section and is non-empty whenever H >= 15.
C22_RowCropRange ==
    q_pc \in {"cut", "done", "raised"} =>
        LET H == q_height
            rowHeight == H \div 15
        IN /\ \A k \in 1..Len(q_crops) :
                 LET i == k - 1
                 IN /\ q_crops[k].start_y = Max2(0, i * rowHeight - 5)
                    /\ q_crops[k].end_y = Min2(H, (i + 1) * rowHeight + 5)
                    /\ 0 <= q_crops[k].start_y
                    /\ q_crops[k].end_y <= H
                    /\ H >= 15 => q_crops[k].start_y < q_crops[k].end_y
           /\ H >= 15 => q_pc # "raised"

\* all 15 crops of a section whose height is not a multiple of 15
C22_Witness ==
    /\ q_pc = "done"
    /\ Len(q_crops) = 15
    /\ q_height >= 15
    /\ q_height % 15 # 0
    /\ q_crops[1].start_y = 0
    /\ q_crops[1].end_y < q_height
    /\ q_crops[15].start_y > 0
    /\ q_crops[15].end_y = q_height

\* C23: for every section height, the 15th row crop ends at the section's
\* bottom edge, so every pixel row of the section lies in at least one of
\* the 15 crops.
C23_LastRowReachesBottom ==
    q_pc = "done" =>
        /\ q_crops[num_questions].end_y = q_height
        /\ \A y \in 0..(q_height - 1) :
              \E k \in 1..Len(q_crops) : q_crops[k].start_y <= y /\ y < q_crops[k].end_y

\* the columns and the pixel rows of the image that a band holds
BandColumns(b) == {x \in 0..(Val(t_image).width - 1) : b.x0 <= x /\ x < b.x1}
BandRows(b) ==
    IF BandHeight(b) = 0 THEN {}
    ELSE {y \in 0..(Val(t_image).height - 1) : b.y0 <= y /\ y < b.y1}

\* the three bands cover [0, W div 3), [W div 3, 2*(W div 3)) and
\* [2*(W div 3), W): disjoint, covering every column, the first two equally
\* wide, the remainder in the rightmost one
ThirdsColumns ==
    LET W == Val(t_image).width
        p == Val(t_parts)
    IN /\ p.left.x0 = 0 /\ p.left.x1 = W \div 3
       /\ p.middle.x0 = W \div 3 /\ p.middle.x1 = 2 * (W \div 3)
       /\ p.right.x0 = 2 * (W \div 3) /\ p.right.x1 = W
       /\ BandColumns(p.left) \cap BandColumns(p.middle) = {}
       /\ BandColumns(p.left) \cap BandColumns(p.right) = {}
       /\ BandColumns(p.middle) \cap BandColumns(p.right) = {}
       /\ BandColumns(p.left) \cup BandColumns(p.middle) \cup BandColumns(p.right) = 0..(W - 1)
       /\ Cardinality(BandColumns(p.left)) = Cardinality(BandColumns(p.middle))
       /\ Cardinality(BandColumns(p.right)) = (W \div 3) + (W % 3)

C25_FailureScoped ==
    (pc = "done" /\ ~IsNone(returned)) =>
        /\ \A r \in Rows :
              ~Faulted(r) =>
                 /\ HasEntry(NumberOfRow(r))
                 /\ EntryOf(NumberOfRow(r)) = IsolatedDecision(r)
                 /\ \E k \in 1..Len(io_log) : io_log[k].op = "read" /\ io_log[k].by = r
        /\ Len(Val(returned)) = 3 * num_questions - Cardinality({r \in Rows : Faulted(r)})

\* the detector returned no result for the first row processed; the rows
\* after it and the other sections have their entries
C25_Witness ==
    /\ pc = "done" /\ ~IsNone(returned)
    /\ detect_fail = {<<"right", 1>>}
    /\ ~HasEntry(1)
    /\ HasEntry(2) /\ HasEntry(16) /\ HasEntry(45)
    /\ Len(Val(returned)) = 44

\* the criteria a contour fails, in the order the reasons are joined
FailedCriteria(c) ==
    (IF c.area2 <= 2 * min_area THEN <<"Too small">> ELSE <<>>)
    \o (IF c.area2 >= 2 * max_area THEN <<"Too large">> ELSE <<>>)
    \o (IF c.circ <= min_circularity THEN <<"Low circularity">> ELSE <<>>)
    \o (IF 10 * Max2(c.w, c.h) >= max_aspect_ratio * Min2(c.w, c.h)
        THEN <<"High aspect ratio">> ELSE <<>>)

\* C26: before truncation every contour found is in exactly one of the two
\* lists; every rejected contour has a non-empty reason naming exactly the
\* criteria it failed (too small, too large, low circularity, high aspect
\* ratio), joined; rejected contours contribute neither to the selection
\* nor to the fill ratios.
C26_RejectedWithReason ==
    /\ d_pc = "loop" =>
          \A i \in 1..Len(contours) :
              Cardinality({k \in 1..Len(bubbles) : bubbles[k].contour = i})
              + Cardinality({k \in 1..Len(rejected) : rejected[k].contour = i}) = 1
    /\ d_pc \in {"loop", "done", "rerun", "evaluated"} =>
          /\ \A k \in 1..Len(rejected) :
                /\ rejected[k].rejection_reason # <<>>
                /\ rejected[k].rejection_reason = FailedCriteria(contours[rejected[k].contour])
          /\ \A k \in 1..Len(bubbles) :
                /\ \A j \in 1..Len(rejected) : bubbles[k].contour # rejected[j].contour
                /\ FailedCriteria(contours[bubbles[k].contour]) = <<>>
    /\ d_pc \in {"done", "rerun", "evaluated"} =>
          /\ Len(rejected) + Cardinality(AcceptedIdx) = Len(contours)
          /\ \A n \in 1..Len(selected) : selected[n] + 1 \in 1..Len(bubbles)
          /\ selected = analyze_selections(bubbles)

\* a row with a contour rejected for three reasons, one rejected for one
\* reason, both dark, and a marked candidate
C26_Witness ==
    /\ d_pc = "done"
    /\ \E k \in 1..Len(rejected) :
          rejected[k].rejection_reason = <<"Too small", "Low circularity", "High aspect ratio">>
    /\ \E k \in 1..Len(rejected) : rejected[k].rejection_reason = <<"Too large">>
    /\ Len(selected) = 1
    /\ Len(bubbles) = 2

\* C27: order_points gives the four roles by minimum coordinate sum
\* (top-left), minimum difference (top-right), maximum sum (bottom-right) and
\* maximum difference (bottom-left), and for four distinct points the result
\* is a permutation of the input: no point is used for two roles.
C27_OrderPointsPermutation ==
    (n_pc \in {"enhance", "resize", "done"} /\ ~IsNone(n_input)
       /\ Val(n_input).border.kind = "quad") =>
        LET pts == Val(n_input).border.pts
            rect == order_points(pts)
            Sum(q) == q[1] + q[2]
            Dif(q) == q[2] - q[1]
        IN /\ \A k \in 1..4 :
                 /\ Sum(rect[1]) <= Sum(pts[k]) /\ Sum(pts[k]) <= Sum(rect[3])
                 /\ Dif(rect[2]) <= Dif(pts[k]) /\ Dif(pts[k]) <= Dif(rect[4])
           /\ {rect[k] : k \in 1..4} = {pts[k] : k \in 1..4}
           /\ \A j, k \in 1..4 : j # k => rect[j] # rect[k]

\* C28: the raw image is rotated by 90 degrees iff its height is smaller
\* than its width, so the image handed to the border search has height >=
\* width; a portrait or square image is left as it is.
C28_RotateIffLandscape ==
    (n_pc = "border" /\ ~IsNone(n_input)) =>
        LET raw == Val(n_input).shape
            img == Val(n_image)
        IN /\ img.height >= img.width
           /\ raw.height < raw.width <=> img.top # raw.top
           /\ raw.height < raw.width =>
                 /\ img.height = raw.width
                 /\ img.width = raw.height
                 /\ img.top = "left"
           /\ raw.height >= raw.width => img = raw

\* a square photograph arrived at the border search unrotated
C28_Witness ==
    /\ n_pc = "border"
    /\ ~IsNone(n_input)
    /\ Val(n_input).shape.height = Val(n_input).shape.width
    /\ Val(n_image) = Val(n_input).shape

\* the decision of question n as it is computed when no model answers are
\* supplied
DecisionWithoutModel(n) ==
    LET found == find_bubbles(RowScenes[sheet[RowOfNumber(n)]]).bubbles
    IN question_result(n, None, found, analyze_selections(found))

\* C29: with model answers supplied, the model answer attached to global
\* question n is element n-1 of the list if 0 <= n-1 < length and None
\* otherwise; supplying or omitting model answers never changes a
\* question's answer, fill_ratios or bubbles_detected.
C29_ModelAnswerFrame ==
    (pc = "done" /\ ~IsNone(returned)) =>
        \A n \in 1..(3 * num_questions) :
            HasEntry(n) =>
               LET e == EntryOf(n)
                   d == DecisionWithoutModel(n)
               IN /\ e.model_answer =
                        IF ~IsNone(model_answers) /\ n <= Len(Val(model_answers))
                        THEN Some(Val(model_answers)[n]) ELSE None
                  /\ e.answer = d.answer
                  /\ e.fill_ratios = d.fill_ratios
                  /\ e.bubbles_detected = d.bubbles_detected

\* a finished run with three model answers: question 3 carries the last of
\* them, question 4 none
C29_Witness ==
    /\ pc = "done" /\ ~IsNone(returned)
    /\ model_answers = Some(<<2, 0, 1>>)
    /\ HasEntry(3) /\ EntryOf(3).model_answer = Some(1)
    /\ HasEntry(4) /\ EntryOf(4).model_answer = None
    /\ ~IsNone(EntryOf(3).answer)

(***************************************************************************)
(* C30                                                                     *)
(***************************************************************************)
\* the time-stamped files of output_dir
TimestampedFiles ==
    {f \in c_out : startswith(f.name, STR_combined_prefix) /\ endswith(f.name, STR_jpg)}

\* the k latest time stamps under which an image was saved
MostRecent(k) == {t \in c_written : Cardinality({u \in c_written : u > t}) < k}

\* the column the claim gives question n
ClaimedColumn(n) == IF n >= 31 THEN 0 ELSE IF n >= 16 THEN 1 ELSE 2

\* the grid holds the files of the listing where the claim puts them, and
\* nothing else
GridAsClaimed(image, listing) ==
    /\ \A n \in 1..45 :
          question_file_name(n) \in listing
              => image[(n - 1) % 15][ClaimedColumn(n)] = question_file_name(n)
    /\ \A row \in DOMAIN image : \A col \in DOMAIN image[row] :
          image[row][col] # <<>>
              => \E n \in {m \in 1..45 : row = (m - 1) % 15 /\ col = ClaimedColumn(m)} :
                    /\ question_file_name(n) \in listing
                    /\ image[row][col] = question_file_name(n)

====
